---- MODULE Spec2Model ----
(***************************************************************************)
(* Model of dad-controller (src/dad-controller.go): the policy model       *)
(* (activity rules, patterns, per-weekday schedules) and the enforcement   *)
(* engine (classification, duration counters, evaluation).                 *)
(*                                                                         *)
(* Durations are counted in minutes.  A timestamp is the number of minutes *)
(* since 1970-01-01 00:00 in the engine's time zone.                       *)
(* A path or a pattern is a sequence of characters; "." in a pattern is    *)
(* the regular expression that matches any one character.                  *)
(***************************************************************************)
EXTENDS Integers, Sequences, FiniteSets, TLC

VARIABLES
    SamplingInterval,   \* dadController.SamplingInterval
    Activities,         \* dadController.Activities: sequence of activityRule
    LastControlTime,    \* dadController.LastControlTime
    ActivityDuration,   \* dadController.ActivityDuration: weekday -> activity -> duration
    op,                 \* the operation that ran last
    classified,         \* the classification (rp) the last operation worked on
    kills,              \* the KillRunningProcesses calls of the last operation, in call order
    before,             \* what the last operation found: whether its timestamp was on another
                        \* calendar date than LastControlTime, the counters of the weekday it
                        \* worked on, the names of the rules
    confLastModTime,    \* dadController.confLastModTime
    configFile,         \* the file dad-controller.json
    stateFile,          \* the file dad-controller.state
    pc,                 \* the position of the process in main
    restored,           \* what reloadStateIfExist found in place of the state file
    ledger              \* what the scans of LastControlTime's calendar date observed and decided

vars == <<SamplingInterval, Activities, LastControlTime, ActivityDuration,
          op, classified, kills, before,
          confLastModTime, configFile, stateFile, pc, restored, ledger>>

(***************************************************************************)
(* Bounds                                                                  *)
(***************************************************************************)
\* the most patterns of a rule and the most windows of a schedule that the
\* provisioning of the policy builds, one operation at a time
MaxPatterns == 1
MaxPeriods == 1

\* a scan is not taken when it would push a counter above MaxAccum
MaxAccum == 2

\* the largest counter of a day of scans with non-decreasing timestamps
MaxDayAccum == 3

\* the largest number of calls of AddAllowedPeriod on the rule of a schedule study
MaxWindows == 2

(***************************************************************************)
(* Maps (Go map): a function on the set of its keys                        *)
(***************************************************************************)
EmptyMap == [k \in {} |-> 0]

MapSet(m, key, v) == [k \in (DOMAIN m) \cup {key} |-> IF k = key THEN v ELSE m[k]]

MapDelete(m, key) == [k \in (DOMAIN m) \ {key} |-> m[k]]

(***************************************************************************)
(* time.Time                                                               *)
(***************************************************************************)
\* the calendar date of the day z days after 1970-01-01
CivilDate(z) ==
    LET n == z + 719468
        era == n \div 146097
        doe == n - era * 146097
        yoe == (doe - doe \div 1460 + doe \div 36524 - doe \div 146096) \div 365
        doy == doe - (365 * yoe + yoe \div 4 - yoe \div 100)
        mp == (5 * doy + 2) \div 153
        m == IF mp < 10 THEN mp + 3 ELSE mp - 9
    IN [year |-> yoe + era * 400 + (IF m <= 2 THEN 1 ELSE 0),
        month |-> m,
        day |-> doy - (153 * mp + 2) \div 5 + 1]

Year(t) == CivilDate(t \div 1440).year
Month(t) == CivilDate(t \div 1440).month
Day(t) == CivilDate(t \div 1440).day
Hour(t) == (t % 1440) \div 60
Minute(t) == t % 60
\* time.Weekday: Sunday = 0 ... Saturday = 6; 1970-01-01 is a Thursday
Weekday(t) == (4 + (t \div 1440)) % 7

(***************************************************************************)
(* regexp: Compile and MatchString for patterns made of literal            *)
(* characters and "."; the match is unanchored                             *)
(***************************************************************************)
MatchAt(pattern, path, i) ==
    \A j \in 1..Len(pattern) : pattern[j] = "." \/ pattern[j] = path[i + j - 1]

MatchString(pattern, path) ==
    \E i \in 1..(Len(path) - Len(pattern) + 1) : MatchAt(pattern, path, i)

(***************************************************************************)
(* Policy model                                                            *)
(***************************************************************************)
RECURSIVE FindRule(_, _, _)
\* the index of the first rule named activity at or after index i, 0 when none
FindRule(acts, activity, i) ==
    IF i > Len(acts) THEN 0
    ELSE IF acts[i].Name = activity THEN i
    ELSE FindRule(acts, activity, i + 1)

NewActivityRule(activity) ==
    [Name |-> activity, ProcessPatterns |-> <<>>, AllowedSchedules |-> EmptyMap]

\* getOrCreateActivityRule returning the rule the loop visited last when a
\* rule list that is not empty has no rule of that name
getOrCreateActivityRule_ReturnsLast(acts, activity) ==
    LET i == FindRule(acts, activity, 1)
    IN IF i # 0 THEN [Activities |-> acts, idx |-> i]
       ELSE IF acts # <<>> THEN [Activities |-> acts, idx |-> Len(acts)]
       ELSE [Activities |-> Append(acts, NewActivityRule(activity)), idx |-> Len(acts) + 1]

\* getOrCreateActivityRule comparing the name with the last rule alone
getOrCreateActivityRule_LastOnly(acts, activity) ==
    IF acts # <<>> /\ acts[Len(acts)].Name = activity
    THEN [Activities |-> acts, idx |-> Len(acts)]
    ELSE [Activities |-> Append(acts, NewActivityRule(activity)), idx |-> Len(acts) + 1]

\* getOrCreateActivityRule appending a rule whether or not one of that name
\* exists
getOrCreateActivityRule_AlwaysAppend(acts, activity) ==
    [Activities |-> Append(acts, NewActivityRule(activity)), idx |-> Len(acts) + 1]

\* the rule list after the call, and the index in it of the rule returned
getOrCreateActivityRule(acts, activity) ==
    LET i == FindRule(acts, activity, 1)
    IN IF i # 0 THEN [Activities |-> acts, idx |-> i]
       ELSE [Activities |-> Append(acts, NewActivityRule(activity)), idx |-> Len(acts) + 1]

AddProgramPattern(a, programPattern) ==
    [a EXCEPT !.ProcessPatterns = Append(@, programPattern)]

\* a new schedule that allows the whole day
NewSchedule_Unlimited == [AllowedPeriods |-> <<>>, MaxDuration |-> 1440]

NewSchedule == [AllowedPeriods |-> <<>>, MaxDuration |-> 0]

\* the rule after the call; the schedule returned is its AllowedSchedules[day]
getOrCreateSchedule(a, day) ==
    IF day \in DOMAIN a.AllowedSchedules THEN a
    ELSE [a EXCEPT !.AllowedSchedules = MapSet(@, day, NewSchedule)]

RECURSIVE AddAllowedPeriod(_, _, _, _)
AddAllowedPeriod(a, days, begin, end) ==
    IF days = <<>> THEN a
    ELSE LET d == Head(days)
             b == getOrCreateSchedule(a, d)
             s == b.AllowedSchedules[d]
             s2 == [s EXCEPT !.AllowedPeriods = Append(@, [Begin |-> begin, End |-> end])]
         IN AddAllowedPeriod([b EXCEPT !.AllowedSchedules = MapSet(@, d, s2)],
                             Tail(days), begin, end)

RECURSIVE SetMaximumAllowedDurationPerDay(_, _, _)
SetMaximumAllowedDurationPerDay(a, days, maximumAllowedDurationPerDay) ==
    IF days = <<>> THEN a
    ELSE LET d == Head(days)
             b == getOrCreateSchedule(a, d)
             s == b.AllowedSchedules[d]
             s2 == [s EXCEPT !.MaxDuration = maximumAllowedDurationPerDay]
         IN SetMaximumAllowedDurationPerDay([b EXCEPT !.AllowedSchedules = MapSet(@, d, s2)],
                                            Tail(days), maximumAllowedDurationPerDay)

(***************************************************************************)
(* Enforcement engine                                                      *)
(***************************************************************************)
GetActivityDuration(ad, lct, activity) ==
    LET day == Weekday(lct)
    IN IF day \notin DOMAIN ad THEN 0
       ELSE IF activity \notin DOMAIN ad[day] THEN 0
       ELSE ad[day][activity]

\* the counters after the call
updateActivityDuration(ad, lct, activity, duration) ==
    LET day == Weekday(lct)
        bucket == IF day \in DOMAIN ad THEN ad[day] ELSE EmptyMap
    IN MapSet(ad, day, MapSet(bucket, activity, duration))

RECURSIVE MatchProcesses_Deduplicated(_, _, _, _, _)
\* the loop recording a process once per activity
MatchProcesses_Deduplicated(results, name, processPattern, processes, k) ==
    IF k > Len(processes) THEN results
    ELSE LET rp == processes[k]
             r == IF name \in DOMAIN results THEN results[name] ELSE <<>>
         IN IF MatchString(processPattern, rp.Path) /\ (\A n \in 1..Len(r) : r[n] # rp)
            THEN MatchProcesses_Deduplicated(MapSet(results, name, Append(r, rp)),
                                             name, processPattern, processes, k + 1)
            ELSE MatchProcesses_Deduplicated(results, name, processPattern, processes, k + 1)

RECURSIVE MatchProcesses(_, _, _, _, _)
\* the loop over the running processes for one pattern of one activity
MatchProcesses(results, name, processPattern, processes, k) ==
    IF k > Len(processes) THEN results
    ELSE LET rp == processes[k]
             r == IF name \in DOMAIN results THEN results[name] ELSE <<>>
         IN IF MatchString(processPattern, rp.Path)
            THEN MatchProcesses(MapSet(results, name, Append(r, rp)),
                                name, processPattern, processes, k + 1)
            ELSE MatchProcesses(results, name, processPattern, processes, k + 1)

RECURSIVE MatchPatterns(_, _, _, _)
\* the loop over the patterns of one activity
MatchPatterns(results, activity, processes, j) ==
    IF j > Len(activity.ProcessPatterns) THEN results
    ELSE MatchPatterns(
             MatchProcesses(results, activity.Name, activity.ProcessPatterns[j], processes, 1),
             activity, processes, j + 1)

RECURSIVE MatchActivities(_, _, _, _)
\* the loop over the activities
MatchActivities(results, acts, processes, i) ==
    IF i > Len(acts) THEN results
    ELSE MatchActivities(MatchPatterns(results, acts[i], processes, 1), acts, processes, i + 1)

getRunningProcessesPerActivity(acts, processes) ==
    MatchActivities(EmptyMap, acts, processes, 1)

\* the change of day test comparing the day of the month alone
DateChanged_DayOnly(now, lct) == Day(now) # Day(lct)

\* the change of day test comparing the day of the week alone
DateChanged_WeekdayOnly(now, lct) == Weekday(now) # Weekday(lct)

\* change of day detected
DateChanged(now, lct) ==
    Year(now) # Year(lct) \/ Month(now) # Month(lct) \/ Day(now) # Day(lct)

\* the reset discarding the bucket of the weekday of the previous scan
ResetCounters_PreviousDay(ad, now, lct) ==
    IF Year(now) # Year(lct) \/ Month(now) # Month(lct) \/ Day(now) # Day(lct)
    THEN MapDelete(ad, Weekday(lct))
    ELSE ad

\* reset of counters
ResetCounters(ad, now, lct) ==
    IF DateChanged(now, lct) THEN MapDelete(ad, Weekday(now)) ELSE ad

\* the new value of the counter of an activity with matched processes
AddInterval_OneUnit(d, samplingInterval) == d + 1

AddInterval(d, samplingInterval) == d + samplingInterval

\* the update adding one sampling interval for every matched process
UpdateBucket_PerProcess(bucket, rp, samplingInterval) ==
    [activity \in (DOMAIN bucket) \cup (DOMAIN rp) |->
        IF activity \in DOMAIN rp
        THEN (IF activity \in DOMAIN bucket THEN bucket[activity] ELSE 0)
                 + Len(rp[activity]) * samplingInterval
        ELSE bucket[activity]]

\* the bucket of the day after the update of the counters of the activities of rp
UpdateBucket(bucket, rp, samplingInterval) ==
    [activity \in (DOMAIN bucket) \cup (DOMAIN rp) |->
        IF activity \in DOMAIN rp
        THEN AddInterval(IF activity \in DOMAIN bucket THEN bucket[activity] ELSE 0,
                         samplingInterval)
        ELSE bucket[activity]]

\* the update resetting the counters after it has counted
updateActivityCounters_ResetLast(ad, lct, samplingInterval, rp, now) ==
    LET day == Weekday(now)
        bucket == IF day \in DOMAIN ad THEN ad[day] ELSE EmptyMap
        ad1 == IF DOMAIN rp # {}
               THEN MapSet(ad, day, UpdateBucket(bucket, rp, samplingInterval))
               ELSE ad
    IN [LastControlTime |-> now, ActivityDuration |-> ResetCounters(ad1, now, lct)]

\* the update that never sets the clock back
updateActivityCounters_ClockForward(ad, lct, samplingInterval, rp, now) ==
    LET ad1 == ResetCounters(ad, now, lct)
        day == Weekday(now)
        bucket == IF day \in DOMAIN ad1 THEN ad1[day] ELSE EmptyMap
    IN [LastControlTime |-> IF now > lct THEN now ELSE lct,
        ActivityDuration |->
            IF DOMAIN rp # {} THEN MapSet(ad1, day, UpdateBucket(bucket, rp, samplingInterval))
            ELSE ad1]

\* the update making the bucket of the day available whatever rp holds
updateActivityCounters_AlwaysBucket(ad, lct, samplingInterval, rp, now) ==
    LET ad1 == ResetCounters(ad, now, lct)
        day == Weekday(now)
        bucket == IF day \in DOMAIN ad1 THEN ad1[day] ELSE EmptyMap
    IN [LastControlTime |-> now,
        ActivityDuration |-> MapSet(ad1, day, UpdateBucket(bucket, rp, samplingInterval))]

\* the counters and LastControlTime after the call
updateActivityCounters(ad, lct, samplingInterval, rp, now) ==
    LET ad1 == ResetCounters(ad, now, lct)
        day == Weekday(now)
        bucket == IF day \in DOMAIN ad1 THEN ad1[day] ELSE EmptyMap
    IN [LastControlTime |-> now,
        ActivityDuration |->
            IF DOMAIN rp # {} THEN MapSet(ad1, day, UpdateBucket(bucket, rp, samplingInterval))
            ELSE ad1]

\* the time range reason in another wording
ReasonTimeRange_Reworded == "activity not allowed during this time range"

ReasonDay == "Activity not allowed to be done on this day"
ReasonDuration == "Activity duration above threshold for this day"
ReasonTimeRange == "Activity not allowed to be done during this time range"

DayTime(lct) == Hour(lct) * 100 + Minute(lct)

ScheduleFound(a, day) == day \in DOMAIN a.AllowedSchedules

\* the duration check with the comparison the wrong way round
AboveMaxDuration_Inverted(d, maxDuration) == d < maxDuration

\* the duration check with a comparison that is not strict
AboveMaxDuration_NonStrict(d, maxDuration) == d >= maxDuration

\* the test met by the first duration above the maximum alone
AboveMaxDuration_OnlyJustAbove(d, maxDuration) == d = maxDuration + 1

AboveMaxDuration(d, maxDuration) == d > maxDuration

\* the window check with || in place of &&
InPeriod_Either(dayTime, ap) == dayTime >= ap.Begin \/ dayTime < ap.End

\* the window check with the end of the window included
InPeriod_Closed(dayTime, ap) == dayTime >= ap.Begin /\ dayTime <= ap.End

\* the window check reading a window that ends before it begins as one
\* that runs over midnight
InPeriod_Wraparound(dayTime, ap) ==
    IF ap.End <= ap.Begin THEN dayTime >= ap.Begin \/ dayTime < ap.End
    ELSE dayTime >= ap.Begin /\ dayTime < ap.End

InPeriod(dayTime, ap) == dayTime >= ap.Begin /\ dayTime < ap.End

\* the loop over the windows assigning the result of every test to the flag,
\* so that the last window decides
FoundValidPeriod_LastOnly(periods, dayTime) ==
    periods # <<>> /\ (dayTime >= periods[Len(periods)].Begin /\ dayTime < periods[Len(periods)].End)

\* the loop over the windows leaving at the first window
FoundValidPeriod_FirstOnly(periods, dayTime) ==
    periods # <<>> /\ (dayTime >= periods[1].Begin /\ dayTime < periods[1].End)

FoundValidPeriod(periods, dayTime) ==
    \E k \in 1..Len(periods) : InPeriod(dayTime, periods[k])

\* the evaluation skipping an activity without schedule for the day
Decide_NoScheduleSkipped(a, bucket, day, dayTime, activity) ==
    IF ~(day \in DOMAIN a.AllowedSchedules) THEN ""
    ELSE LET schedule == a.AllowedSchedules[day]
             d == IF activity \in DOMAIN bucket THEN bucket[activity] ELSE 0
         IN IF d > schedule.MaxDuration THEN ReasonDuration
            ELSE IF ~(\E k \in 1..Len(schedule.AllowedPeriods) :
                          /\ dayTime >= schedule.AllowedPeriods[k].Begin
                          /\ dayTime < schedule.AllowedPeriods[k].End)
                 THEN ReasonTimeRange
            ELSE ""

\* the evaluation testing the windows before the duration
Decide_WindowFirst(a, bucket, day, dayTime, activity) ==
    IF ~(day \in DOMAIN a.AllowedSchedules) THEN ReasonDay
    ELSE LET schedule == a.AllowedSchedules[day]
             d == IF activity \in DOMAIN bucket THEN bucket[activity] ELSE 0
         IN IF ~(\E k \in 1..Len(schedule.AllowedPeriods) :
                     /\ dayTime >= schedule.AllowedPeriods[k].Begin
                     /\ dayTime < schedule.AllowedPeriods[k].End)
            THEN ReasonTimeRange
            ELSE IF d > schedule.MaxDuration THEN ReasonDuration
            ELSE ""

\* the reason of the kill decided for an activity, "" when none is decided
Decide(a, bucket, day, dayTime, activity) ==
    IF ~ScheduleFound(a, day) THEN ReasonDay
    ELSE LET schedule == a.AllowedSchedules[day]
             d == IF activity \in DOMAIN bucket THEN bucket[activity] ELSE 0
         IN IF AboveMaxDuration(d, schedule.MaxDuration) THEN ReasonDuration
            ELSE IF ~FoundValidPeriod(schedule.AllowedPeriods, dayTime) THEN ReasonTimeRange
            ELSE ""

RECURSIVE KillEach(_, _, _, _)
\* one call for every process of the list
KillEach(killed, activity, processes, reason) ==
    IF processes = <<>> THEN killed
    ELSE KillEach(Append(killed, [activity |-> activity, rp |-> <<Head(processes)>>,
                                  reason |-> reason]),
                  activity, Tail(processes), reason)

RECURSIVE ControlLoop_KillPerProcess(_, _, _, _, _, _, _)
\* the loop calling the termination collaborator once for every process
ControlLoop_KillPerProcess(acts, killed, bucket, day, dayTime, rp, ord) ==
    IF ord = <<>> THEN [Activities |-> acts, kills |-> killed]
    ELSE LET activity == Head(ord)
             g == getOrCreateActivityRule(acts, activity)
             reason == Decide(g.Activities[g.idx], bucket, day, dayTime, activity)
         IN ControlLoop_KillPerProcess(
                g.Activities,
                IF reason # "" THEN KillEach(killed, activity, rp[activity], reason) ELSE killed,
                bucket, day, dayTime, rp, Tail(ord))

RECURSIVE ControlLoop_BreakOnKill(_, _, _, _, _, _, _)
\* the loop leaving at the first kill
ControlLoop_BreakOnKill(acts, killed, bucket, day, dayTime, rp, ord) ==
    IF ord = <<>> \/ killed # <<>> THEN [Activities |-> acts, kills |-> killed]
    ELSE LET activity == Head(ord)
             g == getOrCreateActivityRule(acts, activity)
             reason == Decide(g.Activities[g.idx], bucket, day, dayTime, activity)
         IN ControlLoop_BreakOnKill(
                g.Activities,
                IF reason # ""
                THEN Append(killed, [activity |-> activity, rp |-> rp[activity], reason |-> reason])
                ELSE killed,
                bucket, day, dayTime, rp, Tail(ord))

RECURSIVE ControlLoop(_, _, _, _, _, _, _)
\* the loop over the activities of rp, visited in the order ord
ControlLoop(acts, killed, bucket, day, dayTime, rp, ord) ==
    IF ord = <<>> THEN [Activities |-> acts, kills |-> killed]
    ELSE LET activity == Head(ord)
             g == getOrCreateActivityRule(acts, activity)
             reason == Decide(g.Activities[g.idx], bucket, day, dayTime, activity)
             call == [activity |-> activity, rp |-> rp[activity], reason |-> reason]
         IN ControlLoop(g.Activities,
                        IF reason # "" THEN Append(killed, call) ELSE killed,
                        bucket, day, dayTime, rp, Tail(ord))

\* the rule list after the call and the kills it made
controlActivities(acts, ad, lct, rp, ord) ==
    LET day == Weekday(lct)
    IN IF day \notin DOMAIN ad THEN [Activities |-> acts, kills |-> <<>>]
       ELSE ControlLoop(acts, <<>>, ad[day], day, DayTime(lct), rp, ord)

\* the scan evaluating first and counting the interval only for the activities
\* it did not kill
scan_KilledNotCounted(acts, ad, lct, samplingInterval, processes, now, ord) ==
    LET rp == getRunningProcessesPerActivity(acts, processes)
        u == updateActivityCounters(ad, lct, samplingInterval, rp, now)
        c == controlActivities(acts, u.ActivityDuration, u.LastControlTime, rp, ord)
        killed == {c.kills[k].activity : k \in 1..Len(c.kills)}
        alive == [activity \in (DOMAIN rp) \ killed |-> rp[activity]]
        v == updateActivityCounters(ad, lct, samplingInterval, alive, now)
    IN [Activities |-> c.Activities,
        LastControlTime |-> v.LastControlTime,
        ActivityDuration |-> v.ActivityDuration,
        rp |-> rp,
        kills |-> c.kills]

\* the scan leaving alone the activities the previous operation killed
scan_KilledOnce(acts, ad, lct, samplingInterval, processes, now, ord) ==
    LET rp == getRunningProcessesPerActivity(acts, processes)
        u == updateActivityCounters(ad, lct, samplingInterval, rp, now)
        c == controlActivities(acts, u.ActivityDuration, u.LastControlTime, rp, ord)
        done == {kills[k].activity : k \in 1..Len(kills)}
    IN [Activities |-> c.Activities,
        LastControlTime |-> u.LastControlTime,
        ActivityDuration |-> u.ActivityDuration,
        rp |-> rp,
        kills |-> SelectSeq(c.kills, LAMBDA call : call.activity \notin done)]

\* the rule list, the counters, LastControlTime, the classification and the
\* kills of one scan
scan(acts, ad, lct, samplingInterval, processes, now, ord) ==
    LET rp == getRunningProcessesPerActivity(acts, processes)
        u == updateActivityCounters(ad, lct, samplingInterval, rp, now)
        c == controlActivities(acts, u.ActivityDuration, u.LastControlTime, rp, ord)
    IN [Activities |-> c.Activities,
        LastControlTime |-> u.LastControlTime,
        ActivityDuration |-> u.ActivityDuration,
        rp |-> rp,
        kills |-> c.kills]

\* the orders in which a range over the keys of a map can visit them
Orders(S) ==
    {o \in [1..Cardinality(S) -> S] : \A i, j \in 1..Cardinality(S) : i # j => o[i] # o[j]}

(***************************************************************************)
(* Provisioning of the policy, as the test suite does it                   *)
(***************************************************************************)
\* time.Sunday ... time.Saturday, with time.Tuesday twice
EveryDays == <<0, 1, 2, 2, 3, 4, 5, 6>>

GivenAnActivityRuleAllowedEveryDayOnInterval(acts, activity, program, allowedDuration, begin, end) ==
    LET g == getOrCreateActivityRule(acts, activity)
        ar == AddAllowedPeriod(
                  SetMaximumAllowedDurationPerDay(
                      AddProgramPattern(g.Activities[g.idx], program),
                      EveryDays, allowedDuration),
                  EveryDays, begin, end)
    IN [g.Activities EXCEPT ![g.idx] = ar]

GivenAnActivityRuleAllowedEveryTime(acts, activity, program, allowedDuration) ==
    LET g == getOrCreateActivityRule(acts, activity)
        ar == AddAllowedPeriod(
                  SetMaximumAllowedDurationPerDay(
                      AddProgramPattern(g.Activities[g.idx], program),
                      EveryDays, allowedDuration),
                  EveryDays, 0, 2359)
    IN [g.Activities EXCEPT ![g.idx] = ar]

GivenAnActivityRuleAllowedOnlyOnSunday(acts, activity, program, allowedDuration) ==
    LET g == getOrCreateActivityRule(acts, activity)
        ar == AddAllowedPeriod(
                  SetMaximumAllowedDurationPerDay(
                      AddProgramPattern(g.Activities[g.idx], program),
                      <<0>>, allowedDuration),
                  <<0>>, 0, 2359)
    IN [g.Activities EXCEPT ![g.idx] = ar]

\* nothing observed yet on the calendar date of LastControlTime
EmptyLedger == [sums |-> EmptyMap, allowed |-> EmptyMap, overrun |-> {}]

(***************************************************************************)
(* Inputs                                                                  *)
(***************************************************************************)
\* 2019-02-02 (Saturday), 2019-02-03 (Sunday), 2019-03-02 (Saturday)
Days == {17929, 17930, 17957}

\* 18:00, 20:00, 21:00
MinutesOfDay == {18 * 60, 20 * 60, 21 * 60}

Times == {d * 1440 + m : d \in Days, m \in MinutesOfDay}

Intervals == {1, 2}

PathGTA == <<"g", "t", "a">>
PathWEB == <<"w", "e", "b">>

ProcessGTA == [Pid |-> 1, Path |-> PathGTA]
ProcessWEB == [Pid |-> 2, Path |-> PathWEB]

\* a process whose path matches the patterns of GTA and the pattern of WEB
ProcessBoth == [Pid |-> 3, Path |-> <<"g", "t", "a", "e", "b">>]

ProcessLists == {<<>>, <<ProcessGTA>>, <<ProcessWEB>>, <<ProcessGTA, ProcessBoth>>}

\* GTA every day from 20:00 to 21:00, one minute a day
PolicyInterval ==
    GivenAnActivityRuleAllowedEveryDayOnInterval(<<>>, "GTA", <<"g", "t", "a">>, 1, 2000, 2100)

\* GTA on Sunday only
PolicySunday ==
    GivenAnActivityRuleAllowedOnlyOnSunday(<<>>, "GTA", <<"g", "t", "a">>, 1)

\* GTA with two patterns and two windows, WEB on Sunday only
PolicyTwo ==
    GivenAnActivityRuleAllowedOnlyOnSunday(
        GivenAnActivityRuleAllowedEveryDayOnInterval(
            PolicyInterval, "GTA", <<"g", ".", "a">>, 1, 1800, 1900),
        "WEB", <<"e", "b">>, 1)

Policies == {PolicyInterval, PolicySunday, PolicyTwo}

\* classifications handed to controlActivities by a direct caller
ControlInputs ==
    {MapSet(EmptyMap, "NEW", <<ProcessWEB>>),
     MapSet(MapSet(EmptyMap, "GTA", <<ProcessGTA>>), "NEW", <<ProcessWEB>>)}

(***************************************************************************)
(* State machine                                                           *)
(***************************************************************************)
RuleNames(acts) == {acts[i].Name : i \in 1..Len(acts)}

Bucket(ad, day) == IF day \in DOMAIN ad THEN ad[day] ELSE EmptyMap

(***************************************************************************)
(* Configuration file, state file and the steps of main                    *)
(***************************************************************************)
\* the zero value of time.Time as a modification time: before every file's
ZeroModTime == 0

\* a nil map: a read finds no key, delete does nothing, an assignment panics
NilMap == [day \in {-1} |-> EmptyMap]

\* the fields of the controller that the configuration and the state touch
Controller(samplingInterval, acts, lct, ad, lastModTime) ==
    [SamplingInterval |-> samplingInterval,
     Activities |-> acts,
     LastControlTime |-> lct,
     ActivityDuration |-> ad,
     confLastModTime |-> lastModTime]

\* var tmpCtrl dadController
ZeroController == Controller(0, <<>>, 0, NilMap, ZeroModTime)

\* the json value null
JSONNull == [null |-> TRUE]
IsNull(v) == DOMAIN v = {"null"}

\* time.Duration.String of a whole number of minutes: "0s", "2m0s", "1h1m0s"
FormatDuration(d) ==
    IF d = 0 THEN <<<<0, "s">>>>
    ELSE IF d < 60 THEN <<<<d, "m">>, <<0, "s">>>>
    ELSE <<<<d \div 60, "h">>, <<d % 60, "m">>, <<0, "s">>>>

\* the seconds in a unit of time.ParseDuration
UnitSeconds(unit) == IF unit = "h" THEN 3600 ELSE IF unit = "m" THEN 60 ELSE 1

RECURSIVE ParseSeconds(_, _)
ParseSeconds(text, i) ==
    IF i > Len(text) THEN 0
    ELSE text[i][1] * UnitSeconds(text[i][2]) + ParseSeconds(text, i + 1)

\* time.ParseDuration, in minutes
ParseDuration(text) == ParseSeconds(text, 1) \div 60

\* duration.MarshalJSON
MarshalDuration(d) == [string |-> FormatDuration(d)]

\* duration.UnmarshalJSON: a number is a count of nanoseconds, a string is
\* parsed by time.ParseDuration
UnmarshalDuration(v) ==
    IF "number" \in DOMAIN v THEN (v.number \div 60000) \div 1000000
    ELSE ParseDuration(v.string)

\* time.Time.MarshalJSON and UnmarshalJSON: the date and the time of the day
MarshalTime(t) == [date |-> t \div 1440, clock |-> t % 1440]
UnmarshalTime(v) == v.date * 1440 + v.clock

\* the key of a map[time.Weekday] in json: the decimal text of the integer
FormatWeekday(day) == ToString(day)
ParseWeekday(key) == CHOOSE day \in 0..6 : ToString(day) = key

\* map[time.Weekday]map[string]duration: a nil map is written as null, and
\* null leaves the map of the receiver as it is
MarshalCounters(ad) ==
    IF ad = NilMap THEN JSONNull
    ELSE [key \in {FormatWeekday(day) : day \in DOMAIN ad} |->
             [a \in DOMAIN ad[ParseWeekday(key)] |->
                 MarshalDuration(ad[ParseWeekday(key)][a])]]

UnmarshalCounters(v, old) ==
    IF IsNull(v) THEN old
    ELSE [day \in {ParseWeekday(key) : key \in DOMAIN v} |->
             [a \in DOMAIN v[FormatWeekday(day)] |->
                 UnmarshalDuration(v[FormatWeekday(day)][a])]]

RECURSIVE MarshalPeriods(_, _)
MarshalPeriods(periods, i) ==
    IF i > Len(periods) THEN <<>>
    ELSE <<[begin |-> periods[i].Begin, end |-> periods[i].End]>>
             \o MarshalPeriods(periods, i + 1)

RECURSIVE UnmarshalPeriods(_, _)
UnmarshalPeriods(v, i) ==
    IF i > Len(v) THEN <<>>
    ELSE <<[Begin |-> v[i].begin, End |-> v[i].end]>> \o UnmarshalPeriods(v, i + 1)

\* map[time.Weekday]*schedule
MarshalSchedules(schedules) ==
    [key \in {FormatWeekday(day) : day \in DOMAIN schedules} |->
        [allowedPeriods |-> MarshalPeriods(schedules[ParseWeekday(key)].AllowedPeriods, 1),
         maxDuration |-> MarshalDuration(schedules[ParseWeekday(key)].MaxDuration)]]

UnmarshalSchedules(v) ==
    [day \in {ParseWeekday(key) : key \in DOMAIN v} |->
        [AllowedPeriods |-> UnmarshalPeriods(v[FormatWeekday(day)].allowedPeriods, 1),
         MaxDuration |-> UnmarshalDuration(v[FormatWeekday(day)].maxDuration)]]

RECURSIVE MarshalRules(_, _)
\* []*activityRule
MarshalRules(acts, i) ==
    IF i > Len(acts) THEN <<>>
    ELSE <<[name |-> acts[i].Name,
            programs |-> acts[i].ProcessPatterns,
            schedules |-> MarshalSchedules(acts[i].AllowedSchedules)]>>
             \o MarshalRules(acts, i + 1)

RECURSIVE UnmarshalRules(_, _)
UnmarshalRules(v, i) ==
    IF i > Len(v) THEN <<>>
    ELSE <<[Name |-> v[i].name,
            ProcessPatterns |-> v[i].programs,
            AllowedSchedules |-> UnmarshalSchedules(v[i].schedules)]>>
             \o UnmarshalRules(v, i + 1)

\* json.Unmarshal(data, &tmpCtrl): a text that does not parse leaves tmpCtrl
\* as it is, a key that is absent leaves its field as it is
Unmarshal(file) ==
    IF file.kind # "ok" THEN [err |-> TRUE, tmpCtrl |-> ZeroController]
    ELSE [err |-> FALSE,
          tmpCtrl |->
              [ZeroController EXCEPT
                  !.SamplingInterval =
                      IF "samplingInterval" \in DOMAIN file.data
                      THEN UnmarshalDuration(file.data.samplingInterval) ELSE @,
                  !.Activities =
                      IF "rules" \in DOMAIN file.data
                      THEN UnmarshalRules(file.data.rules, 1) ELSE @,
                  !.LastControlTime =
                      IF "lastControlTime" \in DOMAIN file.data
                      THEN UnmarshalTime(file.data.lastControlTime) ELSE @,
                  !.ActivityDuration =
                      IF "activityDuration" \in DOMAIN file.data
                      THEN UnmarshalCounters(file.data.activityDuration, @) ELSE @]]

\* json.Marshal(c): the exported fields under their json names
Marshal(c) ==
    [samplingInterval |-> MarshalDuration(c.SamplingInterval),
     rules |-> MarshalRules(c.Activities, 1),
     lastControlTime |-> MarshalTime(c.LastControlTime),
     activityDuration |-> MarshalCounters(c.ActivityDuration)]

\* stat.ModTime().After(c.confLastModTime)
After(modTime, lastModTime) == modTime > lastModTime

\* the reload replacing the whole controller by what it parsed
reloadConfIfNeeded_WholeController(c, file) ==
    IF file.kind = "missing" THEN [panic |-> TRUE, c |-> c]
    ELSE IF ~(file.modTime > c.confLastModTime) THEN [panic |-> FALSE, c |-> c]
    ELSE IF file.kind = "unreadable"
         THEN [panic |-> TRUE, c |-> [c EXCEPT !.confLastModTime = file.modTime]]
    ELSE [panic |-> FALSE,
          c |-> [Unmarshal(file).tmpCtrl EXCEPT
                    !.confLastModTime = file.modTime,
                    !.ActivityDuration = EmptyMap]]

\* the reload opening the file before it compares the modification times
reloadConfIfNeeded_OpenFirst(c, file) ==
    IF file.kind \in {"missing", "unreadable"} THEN [panic |-> TRUE, c |-> c]
    ELSE IF ~(file.modTime > c.confLastModTime) THEN [panic |-> FALSE, c |-> c]
    ELSE [panic |-> FALSE,
          c |-> [c EXCEPT !.confLastModTime = file.modTime,
                          !.Activities = Unmarshal(file).tmpCtrl.Activities,
                          !.SamplingInterval = Unmarshal(file).tmpCtrl.SamplingInterval]]

\* the reload keeping the rules and the interval when the file does not parse
reloadConfIfNeeded_RejectsMalformed(c, file) ==
    IF file.kind = "missing" THEN [panic |-> TRUE, c |-> c]
    ELSE IF ~(file.modTime > c.confLastModTime) THEN [panic |-> FALSE, c |-> c]
    ELSE IF file.kind = "unreadable"
         THEN [panic |-> TRUE, c |-> [c EXCEPT !.confLastModTime = file.modTime]]
    ELSE IF Unmarshal(file).err
         THEN [panic |-> FALSE, c |-> [c EXCEPT !.confLastModTime = file.modTime]]
    ELSE [panic |-> FALSE,
          c |-> [c EXCEPT !.confLastModTime = file.modTime,
                          !.Activities = Unmarshal(file).tmpCtrl.Activities,
                          !.SamplingInterval = Unmarshal(file).tmpCtrl.SamplingInterval]]

\* the controller after the call, and whether the call panicked
reloadConfIfNeeded(c, file) ==
    IF file.kind = "missing" THEN [panic |-> TRUE, c |-> c]
    ELSE IF ~After(file.modTime, c.confLastModTime) THEN [panic |-> FALSE, c |-> c]
    ELSE IF file.kind = "unreadable"
         THEN [panic |-> TRUE, c |-> [c EXCEPT !.confLastModTime = file.modTime]]
    ELSE LET tmpCtrl == Unmarshal(file).tmpCtrl
         IN [panic |-> FALSE,
             c |-> [c EXCEPT !.confLastModTime = file.modTime,
                             !.Activities = tmpCtrl.Activities,
                             !.SamplingInterval = tmpCtrl.SamplingInterval]]

\* the controller and the outcome of its first reload
newDadControllerWithConfigFile(file, now) ==
    reloadConfIfNeeded(Controller(0, <<>>, now, EmptyMap, ZeroModTime), file)

\* the restore taking LastControlTime from the file and leaving the counters
reloadStateIfExist_ClockOnly(c, file) ==
    IF file.kind \in {"missing", "unreadable"} THEN c
    ELSE IF Unmarshal(file).err THEN c
    ELSE [c EXCEPT !.LastControlTime = Unmarshal(file).tmpCtrl.LastControlTime]

\* the controller after the call
reloadStateIfExist(c, file) ==
    IF file.kind \in {"missing", "unreadable"} THEN c
    ELSE LET u == Unmarshal(file)
         IN IF u.err THEN c
            ELSE [c EXCEPT !.LastControlTime = u.tmpCtrl.LastControlTime,
                           !.ActivityDuration = u.tmpCtrl.ActivityDuration]

\* the snapshot written when no state file exists yet, and never again
dumpState_OnlyIfAbsent(c, file) ==
    IF file.kind = "missing" THEN [kind |-> "ok", data |-> Marshal(c)] ELSE file

\* the state file after the call: a file the process cannot open stays as it is
dumpState(c, file) ==
    IF file.kind = "unreadable" THEN file
    ELSE [kind |-> "ok", data |-> Marshal(c)]

\* regexp.Compile returns no error
Compiles(pattern) == \A i \in 1..Len(pattern) : pattern[i] # "("

\* a rule has a pattern that does not compile
HasMalformedPattern(acts) ==
    \E i \in 1..Len(acts) : \E j \in 1..Len(acts[i].ProcessPatterns) :
        ~Compiles(acts[i].ProcessPatterns[j])

\* regex.MatchString is called on the nil *Regexp left by a failed Compile
ClassificationPanics(acts, processes) ==
    processes # <<>> /\ HasMalformedPattern(acts)

\* c.ActivityDuration[day] = ad on a nil map
CountersPanic(ad, rp) == ad = NilMap /\ DOMAIN rp # {}

\* GTA with a pattern that does not compile and one that does
PolicyMalformed ==
    GivenAnActivityRuleAllowedEveryDayOnInterval(
        GivenAnActivityRuleAllowedEveryDayOnInterval(
            <<>>, "GTA", <<"(", "g">>, 1, 2000, 2100),
        "GTA", <<"g", "t", "a">>, 1, 2000, 2100)

\* modification times of the configuration file
ModTimes == {1, 2}

\* what can be found in place of dad-controller.json
ConfigFiles ==
    {[kind |-> "missing", modTime |-> ZeroModTime, data |-> EmptyMap]}
    \cup {[kind |-> k, modTime |-> t, data |-> EmptyMap] :
              k \in {"unreadable", "malformed"}, t \in ModTimes}
    \cup {[kind |-> "ok", modTime |-> t,
           data |-> [samplingInterval |-> MarshalDuration(1),
                     rules |-> MarshalRules(acts, 1)]] :
              t \in ModTimes, acts \in {PolicyInterval, PolicyMalformed}}

\* the timestamps time.Now gives in main
MainTimes == {17929 * 1440 + 20 * 60, 17929 * 1440 + 21 * 60, 17930 * 1440 + 20 * 60}

\* what can be found in place of dad-controller.state when the process starts
StateFiles ==
    {[kind |-> k, data |-> EmptyMap] : k \in {"missing", "unreadable", "malformed"}}
    \cup {[kind |-> "ok",
           data |-> Marshal(Controller(1, PolicyInterval, 17929 * 1440 + 20 * 60,
                                       6 :> ("GTA" :> 1), ZeroModTime))],
          [kind |-> "ok",
           data |-> [lastControlTime |-> MarshalTime(17929 * 1440 + 20 * 60)]]}

\* no file
NoFile == [kind |-> "missing", modTime |-> ZeroModTime, data |-> EmptyMap]

(***************************************************************************)
(* State machine of the engine under test                                  *)
(***************************************************************************)
\* newDadController, then the provisioning of the policy
Init ==
    /\ SamplingInterval \in Intervals
    /\ Activities \in Policies
    /\ LastControlTime \in Times
    /\ ActivityDuration = EmptyMap
    /\ op = "new"
    /\ classified = EmptyMap
    /\ kills = <<>>
    /\ before = [dayChanged |-> FALSE, bucket |-> EmptyMap, rules |-> RuleNames(Activities)]
    /\ confLastModTime = ZeroModTime
    /\ configFile = NoFile
    /\ stateFile = NoFile
    /\ pc = "test"
    /\ restored = ""
    /\ ledger = EmptyLedger

\* scan, with the clock at now and the running processes processes
Scan ==
    \E now \in Times, processes \in ProcessLists :
    \E rp \in {getRunningProcessesPerActivity(Activities, processes)} :
    \E ord \in Orders(DOMAIN rp) :
    \E s \in {scan(Activities, ActivityDuration, LastControlTime, SamplingInterval,
                   processes, now, ord)} :
        /\ \A activity \in DOMAIN s.rp :
               GetActivityDuration(s.ActivityDuration, now, activity) <= MaxAccum
        /\ Activities' = s.Activities
        /\ LastControlTime' = s.LastControlTime
        /\ ActivityDuration' = s.ActivityDuration
        /\ classified' = s.rp
        /\ kills' = s.kills
        /\ op' = "scan"
        /\ before' = [dayChanged |-> (now \div 1440) # (LastControlTime \div 1440),
                      bucket |-> Bucket(ActivityDuration, Weekday(now)),
                      rules |-> RuleNames(Activities)]
        /\ UNCHANGED <<SamplingInterval, confLastModTime, configFile, stateFile, pc, restored, ledger>>

\* controlActivities called on its own
ControlActivities ==
    \E rp \in ControlInputs : \E ord \in Orders(DOMAIN rp) :
    \E c \in {controlActivities(Activities, ActivityDuration, LastControlTime, rp, ord)} :
        /\ Activities' = c.Activities
        /\ kills' = c.kills
        /\ classified' = rp
        /\ op' = "control"
        /\ before' = [dayChanged |-> FALSE,
                      bucket |-> Bucket(ActivityDuration, Weekday(LastControlTime)),
                      rules |-> RuleNames(Activities)]
        /\ UNCHANGED <<SamplingInterval, LastControlTime, ActivityDuration,
                       confLastModTime, configFile, stateFile, pc, restored, ledger>>

Next == Scan \/ ControlActivities

Spec == Init /\ [][Next]_vars

\* the engine driven by scans alone
NextScans == Scan

SpecScans == Init /\ [][NextScans]_vars

(***************************************************************************)
(* State machine of the process: main                                      *)
(***************************************************************************)
\* the controller the process holds
Ctrl ==
    Controller(SamplingInterval, Activities, LastControlTime, ActivityDuration,
               confLastModTime)

\* the controller becomes c
SetController(c) ==
    /\ SamplingInterval' = c.SamplingInterval
    /\ Activities' = c.Activities
    /\ LastControlTime' = c.LastControlTime
    /\ ActivityDuration' = c.ActivityDuration
    /\ confLastModTime' = c.confLastModTime

\* the process has run newDadControllerWithConfigFile
InitMain ==
    \E file \in ConfigFiles, now \in MainTimes :
    \E r \in {newDadControllerWithConfigFile(file, now)} :
        /\ SamplingInterval = r.c.SamplingInterval
        /\ Activities = r.c.Activities
        /\ LastControlTime = r.c.LastControlTime
        /\ ActivityDuration = r.c.ActivityDuration
        /\ confLastModTime = r.c.confLastModTime
        /\ configFile = file
        /\ stateFile \in StateFiles
        /\ pc = IF r.panic THEN "panic" ELSE "restore"
        /\ op = IF r.panic THEN "panicStart" ELSE "start"
        /\ classified = EmptyMap
        /\ kills = <<>>
        /\ before = [dayChanged |-> FALSE, bucket |-> EmptyMap, rules |-> {}]
        /\ restored = ""
        /\ ledger = EmptyLedger

\* the process is started again: ctrl := newDadControllerWithConfigFile(...)
Start ==
    \E now \in MainTimes :
    \E r \in {newDadControllerWithConfigFile(configFile, now)} :
        /\ SetController(r.c)
        /\ pc' = IF r.panic THEN "panic" ELSE "restore"
        /\ op' = IF r.panic THEN "panicStart" ELSE "start"
        /\ classified' = EmptyMap
        /\ kills' = <<>>
        /\ restored' = ""
        /\ UNCHANGED <<before, configFile, stateFile, ledger>>

\* ctrl.reloadStateIfExist()
ReloadStateIfExist ==
    /\ pc = "restore"
    /\ SetController(reloadStateIfExist(Ctrl, stateFile))
    /\ restored' = stateFile.kind
    /\ pc' = "reload"
    /\ op' = "restore"
    /\ UNCHANGED <<classified, kills, before, configFile, stateFile, ledger>>

\* ctrl.reloadConfIfNeeded()
ReloadConfIfNeeded ==
    /\ pc = "reload"
    /\ \E r \in {reloadConfIfNeeded(Ctrl, configFile)} :
           /\ SetController(r.c)
           /\ pc' = IF r.panic THEN "panic" ELSE "sleep"
           /\ op' = IF r.panic THEN "panicReload" ELSE "reload"
    /\ UNCHANGED <<classified, kills, before, configFile, stateFile, restored, ledger>>

\* time.Sleep(time.Duration(ctrl.SamplingInterval))
Sleep ==
    /\ pc = "sleep"
    /\ pc' = "scan"
    /\ op' = "sleep"
    /\ UNCHANGED <<SamplingInterval, Activities, LastControlTime, ActivityDuration,
                   classified, kills, before, confLastModTime, configFile, stateFile,
                   restored, ledger>>

\* ctrl.scan(), with the clock at now and the running processes processes
MainScan ==
    /\ pc = "scan"
    /\ \E now \in MainTimes, processes \in ProcessLists :
           IF ClassificationPanics(Activities, processes)
           THEN /\ pc' = "panic"
                /\ op' = "panicClassify"
                /\ classified' = EmptyMap
                /\ kills' = <<>>
                /\ UNCHANGED <<Activities, LastControlTime, ActivityDuration>>
           ELSE \E rp \in {getRunningProcessesPerActivity(Activities, processes)} :
                IF CountersPanic(ActivityDuration, rp)
                THEN /\ pc' = "panic"
                     /\ op' = "panicCounters"
                     /\ classified' = rp
                     /\ kills' = <<>>
                     /\ LastControlTime' = now
                     /\ UNCHANGED <<Activities, ActivityDuration>>
                ELSE \E ord \in Orders(DOMAIN rp) :
                     \E s \in {scan(Activities, ActivityDuration, LastControlTime,
                                    SamplingInterval, processes, now, ord)} :
                         /\ \A activity \in DOMAIN s.rp :
                                GetActivityDuration(s.ActivityDuration, now, activity)
                                    <= MaxAccum
                         /\ Activities' = s.Activities
                         /\ LastControlTime' = s.LastControlTime
                         /\ ActivityDuration' = s.ActivityDuration
                         /\ classified' = s.rp
                         /\ kills' = s.kills
                         /\ pc' = "dump"
                         /\ op' = "scan"
    /\ UNCHANGED <<SamplingInterval, before, confLastModTime, configFile, stateFile,
                   restored, ledger>>

\* ctrl.dumpState()
DumpState ==
    /\ pc = "dump"
    /\ stateFile' = dumpState(Ctrl, stateFile)
    /\ pc' = "reload"
    /\ op' = "dump"
    /\ UNCHANGED <<SamplingInterval, Activities, LastControlTime, ActivityDuration,
                   classified, kills, before, confLastModTime, configFile, restored, ledger>>

\* somebody replaces, removes or locks the configuration file
WriteConfigFile ==
    /\ \E file \in ConfigFiles :
           /\ file # configFile
           /\ configFile' = file
    /\ UNCHANGED <<SamplingInterval, Activities, LastControlTime, ActivityDuration,
                   op, classified, kills, before, confLastModTime, stateFile, pc,
                   restored, ledger>>

NextMain ==
    \/ Start
    \/ ReloadStateIfExist
    \/ ReloadConfIfNeeded
    \/ Sleep
    \/ MainScan
    \/ DumpState
    \/ WriteConfigFile

SpecMain == InitMain /\ [][NextMain]_vars

(***************************************************************************)
(* State machine of the provisioning: policy operations between scans      *)
(***************************************************************************)
\* the arguments the operations are called with
PolicyNames == {"GTA", "WEB"}
PolicyPatterns == {PathGTA}
PolicyDays == {<<0, 6>>}
PolicyPeriods == {[Begin |-> 2000, End |-> 2100]}
PolicyMaxima == {1}
PolicyTimes == {17929 * 1440 + 20 * 60, 17929 * 1440 + 21 * 60}
PolicyProcessLists == {<<>>, <<ProcessBoth>>}

\* newDadController: no rule, no counter
InitPolicy ==
    /\ SamplingInterval = 1
    /\ Activities = <<>>
    /\ LastControlTime = 17929 * 1440 + 20 * 60
    /\ ActivityDuration = EmptyMap
    /\ op = "new"
    /\ classified = EmptyMap
    /\ kills = <<>>
    /\ before = [dayChanged |-> FALSE, bucket |-> EmptyMap, rules |-> {}]
    /\ confLastModTime = ZeroModTime
    /\ configFile = NoFile
    /\ stateFile = NoFile
    /\ pc = "test"
    /\ restored = ""
    /\ ledger = EmptyLedger

\* what a policy operation leaves alone
PolicyFrame ==
    /\ classified' = EmptyMap
    /\ kills' = <<>>
    /\ before' = [dayChanged |-> FALSE, bucket |-> EmptyMap, rules |-> RuleNames(Activities)]
    /\ UNCHANGED <<SamplingInterval, LastControlTime, ActivityDuration,
                   confLastModTime, configFile, stateFile, pc, restored, ledger>>

\* ctrl.getOrCreateActivityRule(activity)
GetOrCreateActivityRule ==
    /\ \E activity \in PolicyNames :
           Activities' = getOrCreateActivityRule(Activities, activity).Activities
    /\ op' = "getOrCreateActivityRule"
    /\ PolicyFrame

\* ar.AddProgramPattern(program) on a rule of the controller
AddProgramPatternToRule ==
    /\ \E i \in 1..Len(Activities), program \in PolicyPatterns :
           /\ Len(Activities[i].ProcessPatterns) < MaxPatterns
           /\ Activities' = [Activities EXCEPT ![i] = AddProgramPattern(@, program)]
    /\ op' = "AddProgramPattern"
    /\ PolicyFrame

\* AddAllowedPeriod starting the counters afresh
AddAllowedPeriodToRule_ResetsCounters ==
    /\ \E i \in 1..Len(Activities), days \in PolicyDays, ap \in PolicyPeriods :
       \E a \in {AddAllowedPeriod(Activities[i], days, ap.Begin, ap.End)} :
           /\ \A d \in DOMAIN a.AllowedSchedules :
                  Len(a.AllowedSchedules[d].AllowedPeriods) <= MaxPeriods
           /\ Activities' = [Activities EXCEPT ![i] = a]
    /\ op' = "AddAllowedPeriod"
    /\ classified' = EmptyMap
    /\ kills' = <<>>
    /\ before' = [dayChanged |-> FALSE, bucket |-> EmptyMap, rules |-> RuleNames(Activities)]
    /\ ActivityDuration' = EmptyMap
    /\ UNCHANGED <<SamplingInterval, LastControlTime,
                   confLastModTime, configFile, stateFile, pc, restored, ledger>>

\* ar.AddAllowedPeriod(days, begin, end) on a rule of the controller
AddAllowedPeriodToRule ==
    /\ \E i \in 1..Len(Activities), days \in PolicyDays, ap \in PolicyPeriods :
       \E a \in {AddAllowedPeriod(Activities[i], days, ap.Begin, ap.End)} :
           /\ \A d \in DOMAIN a.AllowedSchedules :
                  Len(a.AllowedSchedules[d].AllowedPeriods) <= MaxPeriods
           /\ Activities' = [Activities EXCEPT ![i] = a]
    /\ op' = "AddAllowedPeriod"
    /\ PolicyFrame

\* ar.SetMaximumAllowedDurationPerDay(days, d) on a rule of the controller
SetMaximumOfRule ==
    /\ \E i \in 1..Len(Activities), days \in PolicyDays, d \in PolicyMaxima :
           Activities' =
               [Activities EXCEPT ![i] = SetMaximumAllowedDurationPerDay(@, days, d)]
    /\ op' = "SetMaximumAllowedDurationPerDay"
    /\ PolicyFrame

\* ctx.controller.updateActivityDuration(activity, duration)
GivenAnActivityDuration ==
    /\ \E activity \in PolicyNames, duration \in 1..MaxAccum :
           ActivityDuration' =
               updateActivityDuration(ActivityDuration, LastControlTime, activity, duration)
    /\ op' = "updateActivityDuration"
    /\ classified' = EmptyMap
    /\ kills' = <<>>
    /\ before' = [dayChanged |-> FALSE, bucket |-> EmptyMap, rules |-> RuleNames(Activities)]
    /\ UNCHANGED <<SamplingInterval, Activities, LastControlTime,
                   confLastModTime, configFile, stateFile, pc, restored, ledger>>

\* scan, between two operations on the policy
PolicyScan ==
    \E now \in PolicyTimes, processes \in PolicyProcessLists :
    \E rp \in {getRunningProcessesPerActivity(Activities, processes)} :
    \E ord \in Orders(DOMAIN rp) :
    \E s \in {scan(Activities, ActivityDuration, LastControlTime, SamplingInterval,
                   processes, now, ord)} :
        /\ \A activity \in DOMAIN s.rp :
               GetActivityDuration(s.ActivityDuration, now, activity) <= MaxAccum
        /\ Activities' = s.Activities
        /\ LastControlTime' = s.LastControlTime
        /\ ActivityDuration' = s.ActivityDuration
        /\ classified' = s.rp
        /\ kills' = s.kills
        /\ op' = "scan"
        /\ before' = [dayChanged |-> (now \div 1440) # (LastControlTime \div 1440),
                      bucket |-> Bucket(ActivityDuration, Weekday(now)),
                      rules |-> RuleNames(Activities)]
        /\ UNCHANGED <<SamplingInterval, confLastModTime, configFile, stateFile, pc, restored, ledger>>

NextPolicy ==
    \/ GetOrCreateActivityRule
    \/ AddProgramPatternToRule
    \/ AddAllowedPeriodToRule
    \/ SetMaximumOfRule
    \/ GivenAnActivityDuration
    \/ PolicyScan

SpecPolicy == InitPolicy /\ [][NextPolicy]_vars

(***************************************************************************)
(* State machine of the scans of successive days: the clock never goes     *)
(* back, the policy and the sampling interval do not change                *)
(***************************************************************************)
\* GTA every day at any time, two minutes a day
PolicyEveryTime ==
    GivenAnActivityRuleAllowedEveryTime(<<>>, "GTA", <<"g", "t", "a">>, 2)

DayPolicies == {PolicyInterval, PolicyEveryTime, PolicySunday}

DayProcessLists == {<<>>, <<ProcessGTA>>, <<ProcessGTA, ProcessBoth>>}

\* the activities a scan called kill for with the reason of the duration threshold
KilledForDuration(killed) ==
    {killed[k].activity : k \in {i \in 1..Len(killed) : killed[i].reason = ReasonDuration}}

\* the ledger after a scan: on a new calendar date it starts again, then every
\* observed activity gets one sampling interval, one more allowed scan when no
\* kill call was made for it, and is remembered when it was above the threshold
NextLedger(l, newDate, rp, killed, samplingInterval) ==
    LET base == IF newDate THEN EmptyLedger ELSE l
        names == DOMAIN base.sums \cup DOMAIN rp
        stopped == {killed[k].activity : k \in 1..Len(killed)}
    IN [sums |-> [a \in names |->
                     (IF a \in DOMAIN base.sums THEN base.sums[a] ELSE 0) + IF a \in DOMAIN rp THEN samplingInterval ELSE 0],
        allowed |-> [a \in names |->
                     (IF a \in DOMAIN base.allowed THEN base.allowed[a] ELSE 0)
                         + IF a \in DOMAIN rp /\ a \notin stopped THEN 1 ELSE 0],
        overrun |-> base.overrun \cup KilledForDuration(killed)]

InitDay ==
    /\ SamplingInterval \in Intervals
    /\ Activities \in DayPolicies
    /\ LastControlTime \in Times
    /\ ActivityDuration = EmptyMap
    /\ op = "new"
    /\ classified = EmptyMap
    /\ kills = <<>>
    /\ before = [dayChanged |-> FALSE, bucket |-> EmptyMap, rules |-> RuleNames(Activities)]
    /\ confLastModTime = ZeroModTime
    /\ configFile = NoFile
    /\ stateFile = NoFile
    /\ pc = "test"
    /\ restored = ""
    /\ ledger = EmptyLedger

\* scan, with a clock that did not go back since the last scan
DayScan ==
    \E now \in {t \in Times : t >= LastControlTime}, processes \in DayProcessLists :
    \E rp \in {getRunningProcessesPerActivity(Activities, processes)} :
    \E ord \in Orders(DOMAIN rp) :
    \E s \in {scan(Activities, ActivityDuration, LastControlTime, SamplingInterval,
                   processes, now, ord)} :
        /\ \A activity \in DOMAIN s.rp :
               GetActivityDuration(s.ActivityDuration, now, activity) <= MaxDayAccum
        /\ Activities' = s.Activities
        /\ LastControlTime' = s.LastControlTime
        /\ ActivityDuration' = s.ActivityDuration
        /\ classified' = s.rp
        /\ kills' = s.kills
        /\ op' = "scan"
        /\ before' = [dayChanged |-> (now \div 1440) # (LastControlTime \div 1440),
                      bucket |-> Bucket(ActivityDuration, Weekday(now)),
                      rules |-> RuleNames(Activities)]
        /\ ledger' = NextLedger(ledger, (now \div 1440) # (LastControlTime \div 1440),
                                s.rp, s.kills, SamplingInterval)
        /\ UNCHANGED <<SamplingInterval, confLastModTime, configFile, stateFile, pc, restored>>

NextDay == DayScan

SpecDay == InitDay /\ [][NextDay]_vars

(***************************************************************************)
(* State machine of the scans under rules provisioned window by window     *)
(***************************************************************************)
\* 20:00-21:00, 18:00-19:00, a window that ends before it begins and an
\* empty one
WindowPeriods ==
    {[Begin |-> 2000, End |-> 2100], [Begin |-> 1800, End |-> 1900],
     [Begin |-> 2100, End |-> 1800], [Begin |-> 2000, End |-> 2000]}

\* the windows of successive calls of AddAllowedPeriod
WindowLists == UNION {[1..n -> WindowPeriods] : n \in 1..MaxWindows}

RECURSIVE AddWindows(_, _, _)
\* ar.AddAllowedPeriod(everyDays, begin, end), once per window
AddWindows(a, windows, i) ==
    IF i > Len(windows) THEN a
    ELSE AddWindows(AddAllowedPeriod(a, EveryDays, windows[i].Begin, windows[i].End),
                    windows, i + 1)

\* GTA with its windows on every day, and a maximum of two minutes on no
\* day, on Sunday or on every day
WindowPolicies ==
    {<<SetMaximumAllowedDurationPerDay(
           AddWindows(AddProgramPattern(NewActivityRule("GTA"), PathGTA), windows, 1),
           days, 2)>> :
        windows \in WindowLists, days \in {<<>>, <<0>>, EveryDays}}

\* Saturday 2019-02-02 at 18:00, 20:00 and 21:00, Sunday 2019-02-03 at 20:00
WindowTimes ==
    {17929 * 1440 + m : m \in MinutesOfDay} \cup {17930 * 1440 + 20 * 60}

InitWindows ==
    /\ SamplingInterval \in Intervals
    /\ Activities \in WindowPolicies
    /\ LastControlTime \in WindowTimes
    /\ ActivityDuration = EmptyMap
    /\ op = "new"
    /\ classified = EmptyMap
    /\ kills = <<>>
    /\ before = [dayChanged |-> FALSE, bucket |-> EmptyMap, rules |-> RuleNames(Activities)]
    /\ confLastModTime = ZeroModTime
    /\ configFile = NoFile
    /\ stateFile = NoFile
    /\ pc = "test"
    /\ restored = ""
    /\ ledger = EmptyLedger

\* scan under a rule provisioned window by window
WindowScan ==
    \E now \in WindowTimes, processes \in {<<>>, <<ProcessGTA>>} :
    \E rp \in {getRunningProcessesPerActivity(Activities, processes)} :
    \E ord \in Orders(DOMAIN rp) :
    \E s \in {scan(Activities, ActivityDuration, LastControlTime, SamplingInterval,
                   processes, now, ord)} :
        /\ \A activity \in DOMAIN s.rp :
               GetActivityDuration(s.ActivityDuration, now, activity) <= MaxAccum
        /\ Activities' = s.Activities
        /\ LastControlTime' = s.LastControlTime
        /\ ActivityDuration' = s.ActivityDuration
        /\ classified' = s.rp
        /\ kills' = s.kills
        /\ op' = "scan"
        /\ UNCHANGED <<SamplingInterval, before, confLastModTime, configFile, stateFile,
                       pc, restored, ledger>>

NextWindows == WindowScan

SpecWindows == InitWindows /\ [][NextWindows]_vars

TypeOK ==
    /\ SamplingInterval \in Intervals
    /\ LastControlTime \in Times
    /\ op \in {"new", "scan", "control"}
    /\ pc = "test"
    /\ configFile = NoFile /\ stateFile = NoFile
    /\ confLastModTime = ZeroModTime /\ restored = ""
    /\ \A i \in 1..Len(Activities) : Activities[i].Name \in {"GTA", "WEB", "NEW"}
    /\ \A day \in DOMAIN ActivityDuration : \A a \in DOMAIN ActivityDuration[day] :
           ActivityDuration[day][a] \in 1..MaxAccum

(***************************************************************************)
(* Vocabulary of the properties                                            *)
(***************************************************************************)
\* the weekday and the time of day (HHMM) of the last scan
CurrentDay == (4 + (LastControlTime \div 1440)) % 7
CurrentDayTime == ((LastControlTime % 1440) \div 60) * 100 + (LastControlTime % 60)

\* the activities with at least one matched process in the last operation
Observed == DOMAIN classified

\* the rule found for an activity by exact name match: the first one of that name
HasRule(a) == \E i \in 1..Len(Activities) : Activities[i].Name = a
RuleOf(a) ==
    Activities[CHOOSE i \in 1..Len(Activities) :
                   /\ Activities[i].Name = a
                   /\ \A j \in 1..(i - 1) : Activities[j].Name # a]

HasDaySchedule(a) == HasRule(a) /\ CurrentDay \in DOMAIN RuleOf(a).AllowedSchedules
DaySchedule(a) == RuleOf(a).AllowedSchedules[CurrentDay]

\* the accumulated duration of an activity for the current weekday
Accumulated(a) ==
    IF CurrentDay \in DOMAIN ActivityDuration /\ a \in DOMAIN ActivityDuration[CurrentDay]
    THEN ActivityDuration[CurrentDay][a]
    ELSE 0

\* the same before the last operation, after the reset of a change of day
Baseline(a) ==
    IF before.dayChanged \/ a \notin DOMAIN before.bucket THEN 0 ELSE before.bucket[a]

\* the time of day is inside at least one window of the schedule of the day
InSomeWindow(a) ==
    \E k \in 1..Len(DaySchedule(a).AllowedPeriods) :
        /\ DaySchedule(a).AllowedPeriods[k].Begin <= CurrentDayTime
        /\ CurrentDayTime < DaySchedule(a).AllowedPeriods[k].End

\* the termination collaborator was called for the activity
Killed(a) == \E k \in 1..Len(kills) : kills[k].activity = a
KilledFor(a, reason) ==
    \E k \in 1..Len(kills) : kills[k].activity = a /\ kills[k].reason = reason

(***************************************************************************)
(* Properties                                                              *)
(***************************************************************************)
\* C1: in every scan, an observed activity whose rule has no schedule for the
\* weekday of the scan is killed with the "not allowed on this day" reason,
\* whatever its accumulated duration and the time of day.
C1_NoScheduleForDayIsKilled ==
    op = "scan" =>
        \A a \in Observed : ~HasDaySchedule(a) => KilledFor(a, ReasonDay)

\* an activity without schedule for the day killed for the day, with a duration
\* that a schedule of another day would not allow, at a time that schedule allows
C1_Witness ==
    /\ op = "scan"
    /\ \E a \in Observed :
           /\ ~HasDaySchedule(a)
           /\ KilledFor(a, ReasonDay)
           /\ \E d \in DOMAIN RuleOf(a).AllowedSchedules :
                  /\ Accumulated(a) > RuleOf(a).AllowedSchedules[d].MaxDuration
                  /\ \E k \in 1..Len(RuleOf(a).AllowedSchedules[d].AllowedPeriods) :
                         /\ RuleOf(a).AllowedSchedules[d].AllowedPeriods[k].Begin <= CurrentDayTime
                         /\ CurrentDayTime < RuleOf(a).AllowedSchedules[d].AllowedPeriods[k].End

\* C2: in every scan, an observed activity with a schedule for the day whose
\* accumulated duration, after the increment of the scan, exceeds the maximum
\* of the schedule is killed with the duration reason, also inside a window.
C2_AboveMaximumIsKilled ==
    op = "scan" =>
        \A a \in Observed :
            (HasDaySchedule(a) /\ Accumulated(a) > DaySchedule(a).MaxDuration)
                => KilledFor(a, ReasonDuration)

\* an activity above its maximum killed for duration at a time inside a window
C2_Witness ==
    /\ op = "scan"
    /\ \E a \in Observed :
           /\ HasDaySchedule(a)
           /\ Accumulated(a) > DaySchedule(a).MaxDuration
           /\ InSomeWindow(a)
           /\ KilledFor(a, ReasonDuration)

\* C3: in every scan, an observed activity with a schedule for the day, not
\* above its maximum, at a time of day in none of the windows of the schedule,
\* is killed with the time range reason.
C3_OutsideWindowsIsKilled ==
    op = "scan" =>
        \A a \in Observed :
            (/\ HasDaySchedule(a)
             /\ Accumulated(a) <= DaySchedule(a).MaxDuration
             /\ ~InSomeWindow(a))
                => KilledFor(a, ReasonTimeRange)

\* an activity under its maximum killed for the time range before its window
C3_Witness ==
    /\ op = "scan"
    /\ \E a \in Observed :
           /\ HasDaySchedule(a)
           /\ Accumulated(a) <= DaySchedule(a).MaxDuration
           /\ \A k \in 1..Len(DaySchedule(a).AllowedPeriods) :
                  CurrentDayTime < DaySchedule(a).AllowedPeriods[k].Begin
           /\ KilledFor(a, ReasonTimeRange)

\* C4: in every scan, an observed activity with a schedule for the day, not
\* above its maximum and inside at least one window is not killed in that scan.
C4_AllowedIsNotKilled ==
    op = "scan" =>
        \A a \in Observed :
            (/\ HasDaySchedule(a)
             /\ Accumulated(a) <= DaySchedule(a).MaxDuration
             /\ InSomeWindow(a))
                => ~Killed(a)

\* an allowed activity left alone in a scan that kills another activity
C4_Witness ==
    /\ op = "scan"
    /\ \E a, b \in Observed :
           /\ HasDaySchedule(a)
           /\ Accumulated(a) <= DaySchedule(a).MaxDuration
           /\ InSomeWindow(a)
           /\ ~Killed(a)
           /\ Killed(b)

\* the activities with a counter for the weekday of the last operation, before
\* or after it, or observed in it
Counted ==
    Observed \cup (DOMAIN before.bucket)
        \cup (IF CurrentDay \in DOMAIN ActivityDuration
              THEN DOMAIN ActivityDuration[CurrentDay] ELSE {})

\* the counter of an activity for the weekday of the scan as the scan found it
Found(a) == IF a \in DOMAIN before.bucket THEN before.bucket[a] ELSE 0

\* C5 as stated: in every scan the accumulated duration of every activity for
\* the current weekday grows by one sampling interval when the activity is
\* observed and by zero otherwise.
C5_Original ==
    op = "scan" =>
        \A a \in Counted :
            Accumulated(a) = Found(a) + (IF a \in Observed THEN SamplingInterval ELSE 0)

\* C5: in every scan the accumulated duration of every activity for the
\* current weekday is its value after the reset of a change of day (zero when
\* the date changed, the value found otherwise) plus one sampling interval
\* when the activity is observed, however many processes and patterns matched,
\* and plus zero otherwise.
C5_OneIntervalPerObservedActivity ==
    op = "scan" =>
        \A a \in Counted :
            Accumulated(a) = Baseline(a) + (IF a \in Observed THEN SamplingInterval ELSE 0)

\* a scan on the date of the previous one: an activity matched twice that
\* gained one interval, another one not observed that kept its duration
C5_Witness ==
    /\ op = "scan"
    /\ ~before.dayChanged
    /\ \E a \in Observed, b \in Counted \ Observed :
           /\ Len(classified[a]) >= 2
           /\ Found(a) > 0
           /\ Accumulated(a) = Found(a) + SamplingInterval
           /\ Found(b) > 0
           /\ Accumulated(b) = Found(b)

\* C6: a scan on another calendar date than LastControlTime resets the
\* counters of the weekday of its timestamp before it counts: after the scan
\* an observed activity has one sampling interval, any other one has zero.
C6_ChangeOfDayResets ==
    (op = "scan" /\ before.dayChanged) =>
        \A a \in Counted :
            Accumulated(a) = (IF a \in Observed THEN SamplingInterval ELSE 0)

\* a change of day that found durations for both activities of the weekday,
\* one observed in the scan and one not
C6_Witness ==
    /\ op = "scan"
    /\ before.dayChanged
    /\ \E a \in Observed, b \in Counted \ Observed :
           /\ Found(a) > SamplingInterval
           /\ Accumulated(a) = SamplingInterval
           /\ Found(b) > 0
           /\ Accumulated(b) = 0

\* C7: the duration check is strict: an activity is killed for duration only
\* in a scan that leaves its accumulated duration greater than the maximum of
\* the schedule; a duration equal to the maximum is not killed for duration.
C7_DurationCheckIsStrict ==
    op = "scan" =>
        \A a \in Observed :
            KilledFor(a, ReasonDuration) =>
                (HasDaySchedule(a) /\ Accumulated(a) > DaySchedule(a).MaxDuration)

\* an activity whose duration reached its maximum exactly in the scan, allowed
C7_Witness ==
    /\ op = "scan"
    /\ \E a \in Observed :
           /\ HasDaySchedule(a)
           /\ Accumulated(a) = DaySchedule(a).MaxDuration
           /\ Accumulated(a) = Baseline(a) + SamplingInterval
           /\ SamplingInterval > 0
           /\ ~Killed(a)

\* C8: a window is half-open: for an observed activity with a schedule and
\* not above its maximum, a scan at the begin of a window (that ends later) is
\* not killed, and a scan at the end of a window, inside no other window, is
\* killed with the time range reason.
C8_WindowIsHalfOpen ==
    op = "scan" =>
        \A a \in Observed :
            (HasDaySchedule(a) /\ Accumulated(a) <= DaySchedule(a).MaxDuration) =>
                LET periods == DaySchedule(a).AllowedPeriods
                IN /\ (\E k \in 1..Len(periods) :
                           periods[k].Begin = CurrentDayTime /\ CurrentDayTime < periods[k].End)
                          => ~Killed(a)
                   /\ (/\ \E k \in 1..Len(periods) :
                              periods[k].End = CurrentDayTime
                       /\ \A k \in 1..Len(periods) :
                              CurrentDayTime < periods[k].Begin \/ periods[k].End <= CurrentDayTime)
                          => KilledFor(a, ReasonTimeRange)

\* a scan at 21:00 of an activity allowed from 20:00 to 21:00, killed
C8_Witness ==
    /\ op = "scan"
    /\ CurrentDayTime = 2100
    /\ \E a \in Observed :
           /\ HasDaySchedule(a)
           /\ Accumulated(a) <= DaySchedule(a).MaxDuration
           /\ DaySchedule(a).AllowedPeriods = <<[Begin |-> 2000, End |-> 2100]>>
           /\ KilledFor(a, ReasonTimeRange)

\* C9: the counters are updated before the evaluation and a kill does not
\* undo the update: an activity killed in a scan, for any reason, has gained
\* one sampling interval in that scan.
C9_KilledActivityIsCounted ==
    op = "scan" =>
        \A k \in 1..Len(kills) :
            Accumulated(kills[k].activity) = Baseline(kills[k].activity) + SamplingInterval

\* a scan with two kills for different reasons, one of them for duration
C9_Witness ==
    /\ op = "scan"
    /\ Len(kills) = 2
    /\ kills[1].reason # kills[2].reason
    /\ \E k \in 1..2 : kills[k].reason = ReasonDuration
    /\ \A k \in 1..2 :
           Accumulated(kills[k].activity) = Baseline(kills[k].activity) + SamplingInterval

\* C10 as stated: controlActivities, given an activity with matched processes
\* and no rule, creates an empty rule of that name and kills the activity with
\* the "not allowed on this day" reason.
C10_Original ==
    op = "control" =>
        \A a \in Observed \ before.rules :
            /\ HasRule(a)
            /\ RuleOf(a) = [Name |-> a, ProcessPatterns |-> <<>>, AllowedSchedules |-> EmptyMap]
            /\ KilledFor(a, ReasonDay)

\* C10: controlActivities, given an activity with matched processes and no
\* rule, when the counters of the current weekday exist, creates an empty rule
\* of that name and kills the activity with the "not allowed on this day"
\* reason, on every weekday.
C10_UnknownActivityIsKilled ==
    (op = "control" /\ CurrentDay \in DOMAIN ActivityDuration) =>
        \A a \in Observed \ before.rules :
            /\ HasRule(a)
            /\ RuleOf(a) = [Name |-> a, ProcessPatterns |-> <<>>, AllowedSchedules |-> EmptyMap]
            /\ KilledFor(a, ReasonDay)

\* an activity without rule handed to controlActivities next to one with a
\* rule: the rule is created and the activity killed for the day
C10_Witness ==
    /\ op = "control"
    /\ CurrentDay \in DOMAIN ActivityDuration
    /\ \E a \in Observed \ before.rules, b \in Observed \cap before.rules :
           /\ HasRule(a)
           /\ RuleOf(a).AllowedSchedules = EmptyMap
           /\ KilledFor(a, ReasonDay)

\* the kill calls of the last operation for an activity, and their reasons
KillsOf(a) == {k \in 1..Len(kills) : kills[k].activity = a}
ReasonsOf(a) == {kills[k].reason : k \in KillsOf(a)}

\* the activity fails one of the three checks
Violates(a) ==
    \/ ~HasDaySchedule(a)
    \/ Accumulated(a) > DaySchedule(a).MaxDuration
    \/ ~InSomeWindow(a)

\* C11: the checks run in the order day, duration, time window and stop at
\* the first that fails: the reason of a kill is the one of the earliest
\* failing check, and an activity gets at most one reason in a scan.
C11_EarliestFailingCheckDecides ==
    op = "scan" =>
        \A a \in Observed :
            /\ Cardinality(KillsOf(a)) <= 1
            /\ ~HasDaySchedule(a) => ReasonsOf(a) = {ReasonDay}
            /\ (HasDaySchedule(a) /\ Accumulated(a) > DaySchedule(a).MaxDuration)
                   => ReasonsOf(a) = {ReasonDuration}
            /\ (/\ HasDaySchedule(a)
                /\ Accumulated(a) <= DaySchedule(a).MaxDuration
                /\ ~InSomeWindow(a))
                   => ReasonsOf(a) = {ReasonTimeRange}

\* an activity above its maximum and outside its windows at once, killed for
\* duration alone
C11_Witness ==
    /\ op = "scan"
    /\ \E a \in Observed :
           /\ HasDaySchedule(a)
           /\ Accumulated(a) > DaySchedule(a).MaxDuration
           /\ ~InSomeWindow(a)
           /\ ReasonsOf(a) = {ReasonDuration}
           /\ Cardinality(KillsOf(a)) = 1

\* C12: in every scan the termination collaborator is called exactly once
\* for every activity in violation and not at all for any other activity, and
\* a call carries the name of the activity and the whole list of processes
\* classified under it in this scan.
C12_OneCallPerViolatingActivity ==
    op = "scan" =>
        /\ \A a \in Observed : Violates(a) => Cardinality(KillsOf(a)) = 1
        /\ \A k \in 1..Len(kills) :
               /\ kills[k].activity \in Observed
               /\ Violates(kills[k].activity)
               /\ kills[k].rp = classified[kills[k].activity]

\* a process classified under two activities in violation, handed over in
\* two calls, one of them with a list of several processes
C12_Witness ==
    /\ op = "scan"
    /\ Len(kills) = 2
    /\ kills[1].activity # kills[2].activity
    /\ \E i \in 1..Len(kills[1].rp), j \in 1..Len(kills[2].rp) :
           kills[1].rp[i] = kills[2].rp[j]
    /\ \E k \in 1..2 : Len(kills[k].rp) > 1
    /\ \A k \in 1..2 : kills[k].rp = classified[kills[k].activity]

\* C13: decisions do not persist from a scan to the next and a kill is not
\* repeated inside a scan: an activity killed in a scan, observed again in the
\* next scan and still in violation there, is killed again in that scan, by
\* exactly one call.
C13_KilledAgainInNextScan ==
    [][(op = "scan" /\ op' = "scan") =>
          \A a \in DOMAIN classified' :
              (Killed(a) /\ Violates(a)') => (Cardinality(KillsOf(a)) = 1)']_vars

\* an activity without schedule for the day, counted and killed earlier on
\* this date, observed and killed once more
C13_Witness ==
    /\ op = "scan"
    /\ ~before.dayChanged
    /\ \E a \in Observed :
           /\ Found(a) > 0
           /\ ~HasDaySchedule(a)
           /\ Cardinality(KillsOf(a)) = 1
           /\ KilledFor(a, ReasonDay)

\* the check an observed activity fails first: 1 the day, 2 the duration,
\* 3 the time windows, 0 when it passes them all
FailingCheck(a) ==
    IF ~HasDaySchedule(a) THEN 1
    ELSE IF Accumulated(a) > DaySchedule(a).MaxDuration THEN 2
    ELSE IF ~InSomeWindow(a) THEN 3
    ELSE 0

\* the statement of C17 with the reason strings as the specification words
\* them
C17_Original ==
    op = "scan" =>
        \A k \in 1..Len(kills) :
            kills[k].reason =
                CASE FailingCheck(kills[k].activity) = 1 -> "activity not allowed on this day"
                  [] FailingCheck(kills[k].activity) = 2 -> "activity duration above threshold for this day"
                  [] FailingCheck(kills[k].activity) = 3 -> "activity not allowed during this time range"
                  [] OTHER -> ""

\* C17: the reason string handed to the termination collaborator is,
\* verbatim, "Activity not allowed to be done on this day" for the day check,
\* "Activity duration above threshold for this day" for the duration check
\* and "Activity not allowed to be done during this time range" for the
\* time-window check, and no other reason string is ever passed.
C17_ReasonStringsVerbatim ==
    op = "scan" =>
        \A k \in 1..Len(kills) :
            kills[k].reason =
                CASE FailingCheck(kills[k].activity) = 1 -> "Activity not allowed to be done on this day"
                  [] FailingCheck(kills[k].activity) = 2 -> "Activity duration above threshold for this day"
                  [] FailingCheck(kills[k].activity) = 3 -> "Activity not allowed to be done during this time range"
                  [] OTHER -> ""

\* a scan with two calls, one for the day and one for the time range, each
\* with its reason
C17_Witness ==
    /\ op = "scan"
    /\ Len(kills) = 2
    /\ {FailingCheck(kills[k].activity) : k \in 1..2} = {1, 3}
    /\ {kills[k].reason : k \in 1..2} =
           {"Activity not allowed to be done on this day",
            "Activity not allowed to be done during this time range"}

\* the set of the calls of a sequence of calls
CallSet(calls) == {calls[k] : k \in 1..Len(calls)}

\* the scans the engine can make from the current state with one timestamp
\* and one process list, one for every order of iteration of the map
ScansOf(now, processes) ==
    LET rp == getRunningProcessesPerActivity(Activities, processes)
    IN {scan(Activities, ActivityDuration, LastControlTime, SamplingInterval,
             processes, now, ord) : ord \in Orders(DOMAIN rp)}

\* C18: the engine is deterministic under the injected clock: a scan takes one
\* timestamp, which becomes LastControlTime and gives the weekday and the time
\* of day of the evaluation, and from equal rules, counters and
\* LastControlTime, with the same timestamp and process list, every scan ends
\* with the same rules, the same counters and the same set of (activity,
\* processes, reason) termination calls.
C18_DeterministicUnderClock ==
    \A now \in Times, processes \in ProcessLists :
        \E scans \in {ScansOf(now, processes)} :
            \A s1 \in scans :
                /\ s1.LastControlTime = now
                /\ \A k \in 1..Len(s1.kills) :
                       LET activity == s1.kills[k].activity
                           g == getOrCreateActivityRule(s1.Activities, activity)
                       IN s1.kills[k].reason =
                              Decide(g.Activities[g.idx],
                                     Bucket(s1.ActivityDuration, Weekday(now)),
                                     Weekday(now), DayTime(now), activity)
                /\ \A s2 \in scans :
                       /\ s1.Activities = s2.Activities
                       /\ s1.ActivityDuration = s2.ActivityDuration
                       /\ s1.LastControlTime = s2.LastControlTime
                       /\ CallSet(s1.kills) = CallSet(s2.kills)

\* after a scan, a state from which one timestamp and one process list give
\* two scans that make their calls in different orders
C18_Witness ==
    /\ op = "scan"
    /\ \E now \in Times, processes \in ProcessLists :
           \E s1, s2 \in ScansOf(now, processes) :
               /\ s1.kills # s2.kills
               /\ Len(s1.kills) = 2
               /\ CallSet(s1.kills) = CallSet(s2.kills)

\* C19: whenever controlActivities runs inside a scan with a non-empty
\* classification, the bucket of the weekday of LastControlTime exists, so
\* the early return for a missing bucket never skips an observed activity:
\* every observed activity in violation is killed.
C19_BucketExistsWhenControlRuns ==
    (op = "scan" /\ Observed # {}) =>
        /\ CurrentDay \in DOMAIN ActivityDuration
        /\ Observed \subseteq DOMAIN ActivityDuration[CurrentDay]
        /\ \A a \in Observed : Violates(a) => Killed(a)

\* a scan on a new date that found no counter for its weekday, created the
\* bucket and killed an observed activity
C19_Witness ==
    /\ op = "scan"
    /\ before.dayChanged
    /\ before.bucket = EmptyMap
    /\ CurrentDay \in DOMAIN ActivityDuration
    /\ \E a \in Observed : Killed(a)

\* C20: a scan with timestamp now creates, deletes or modifies only the
\* bucket keyed by the weekday of now: the buckets of the six other weekdays,
\* the one of the previous scan's weekday among them, are left as they were,
\* also when the date changed and when more than one day has elapsed.
C20_OnlyTheBucketOfNowChanges ==
    [][op' = "scan" =>
          \A d \in (0..6) \ {Weekday(LastControlTime')} :
              /\ (d \in DOMAIN ActivityDuration) = (d \in DOMAIN ActivityDuration')
              /\ d \in DOMAIN ActivityDuration => ActivityDuration'[d] = ActivityDuration[d]]_vars

\* a scan on a Sunday that detected a change of date, counted in the bucket
\* of Sunday and left the counters of Saturday in place
C20_Witness ==
    /\ op = "scan"
    /\ before.dayChanged
    /\ CurrentDay = 0
    /\ Observed # {}
    /\ 6 \in DOMAIN ActivityDuration
    /\ \E a \in DOMAIN ActivityDuration[6] : ActivityDuration[6][a] > 0

\* the step is a call of reloadConfIfNeeded in the loop of main
ReloadStep == pc = "reload" /\ op' \in {"reload", "panicReload"}

\* C14: reloadConfIfNeeded never changes the duration counters or
\* LastControlTime: when the modification time of the configuration file is
\* not after the last-seen value it changes nothing at all, and when it is
\* after, it replaces only the rule list and the sampling interval (and the
\* last-seen modification time), by what the file holds.
C14_ReloadKeepsCountersAndClock ==
    [][ReloadStep =>
          /\ LastControlTime' = LastControlTime
          /\ ActivityDuration' = ActivityDuration
          /\ (configFile.kind # "missing" /\ ~(configFile.modTime > confLastModTime))
                 => /\ UNCHANGED <<SamplingInterval, Activities, confLastModTime>>
                    /\ op' = "reload"
          /\ (configFile.kind = "ok" /\ configFile.modTime > confLastModTime)
                 => /\ confLastModTime' = configFile.modTime
                    /\ Activities' = UnmarshalRules(configFile.data.rules, 1)
                    /\ SamplingInterval' = UnmarshalDuration(configFile.data.samplingInterval)
                    /\ op' = "reload"]_vars

\* a reload that replaced the rules a scan had counted under, with the
\* counters of that scan still in place
C14_Witness ==
    /\ pc = "sleep"
    /\ op = "reload"
    /\ classified # EmptyMap
    /\ HasMalformedPattern(Activities)
    /\ confLastModTime = configFile.modTime
    /\ \E day \in DOMAIN ActivityDuration : \E a \in DOMAIN ActivityDuration[day] :
           a \in DOMAIN classified /\ ActivityDuration[day][a] > 0

\* the state file was missing, unreadable or did not parse
RestoreFailed == restored \in {"missing", "unreadable", "malformed"}

\* C15: restoring persisted state is never fatal: when the state file is
\* missing, unreadable or malformed, reloadStateIfExist leaves the engine in
\* its fresh state (empty counters from construction), and every later scan,
\* also one with matched processes, completes without the process
\* terminating.
C15_RestoreIsNeverFatal ==
    RestoreFailed =>
        /\ op = "restore" => ActivityDuration = EmptyMap
        /\ ActivityDuration # NilMap
        /\ op \notin {"panicClassify", "panicCounters"}

\* the rules without the patterns that do not compile
CompilableRules(acts) ==
    [i \in 1..Len(acts) |->
        [acts[i] EXCEPT !.ProcessPatterns = SelectSeq(@, Compiles)]]

\* the step is a call of scan in the loop of main
ScanStep == pc = "scan" /\ op' \in {"scan", "panicClassify", "panicCounters"}

\* C16: with a rule that holds a pattern that does not compile, the scan
\* completes without crashing for every list of running processes, the
\* malformed pattern matches no process and the other patterns and rules are
\* classified as usual.
C16_MalformedPatternMatchesNothing ==
    [][(ScanStep /\ HasMalformedPattern(Activities) /\ ActivityDuration # NilMap) =>
          /\ op' = "scan"
          /\ \E processes \in ProcessLists :
                 classified' =
                     getRunningProcessesPerActivity(CompilableRules(Activities), processes)]_vars

\* the classifications the engine can get from the current rules
Classifications ==
    {getRunningProcessesPerActivity(Activities, processes) : processes \in ProcessLists}

\* C22: after every call of updateActivityCounters LastControlTime equals the
\* timestamp passed to the call, whether or not a process was classified,
\* whether or not the date changed, and also when the timestamp is earlier
\* than the previous LastControlTime.
C22_LastControlTimeIsNow ==
    \A now \in Times, rp \in Classifications :
        updateActivityCounters(ActivityDuration, LastControlTime, SamplingInterval,
                               rp, now).LastControlTime = now

\* after a scan, a call with an earlier timestamp on another date and with
\* nothing classified, and one on the same date with an activity classified
C22_Witness ==
    /\ op = "scan"
    /\ \E now \in Times :
           /\ now < LastControlTime
           /\ DateChanged(now, LastControlTime)
           /\ updateActivityCounters(ActivityDuration, LastControlTime, SamplingInterval,
                                     EmptyMap, now).LastControlTime = now
    /\ \E now \in Times, rp \in Classifications :
           /\ now < LastControlTime
           /\ ~DateChanged(now, LastControlTime)
           /\ DOMAIN rp # {}
           /\ updateActivityCounters(ActivityDuration, LastControlTime, SamplingInterval,
                                     rp, now).LastControlTime = now

\* C23 as stated: a scan whose classification is empty creates no bucket,
\* changes no counter and makes no call to the termination collaborator.
C23_Original ==
    (op = "scan" /\ Observed = {}) =>
        /\ kills = <<>>
        /\ Bucket(ActivityDuration, CurrentDay) = before.bucket

\* C23: a scan whose classification is empty makes no call to the termination
\* collaborator and creates no bucket; on the date of LastControlTime it
\* changes no counter, and on another date it only discards the bucket of the
\* weekday of its timestamp.
C23_EmptyClassificationCountsNothing ==
    (op = "scan" /\ Observed = {}) =>
        /\ kills = <<>>
        /\ before.bucket = EmptyMap => CurrentDay \notin DOMAIN ActivityDuration
        /\ before.dayChanged => CurrentDay \notin DOMAIN ActivityDuration
        /\ ~before.dayChanged => Bucket(ActivityDuration, CurrentDay) = before.bucket

\* a scan with nothing classified on a date that found no bucket, with
\* counters of another weekday in place
C23_Witness ==
    /\ op = "scan"
    /\ Observed = {}
    /\ before.bucket = EmptyMap
    /\ CurrentDay \notin DOMAIN ActivityDuration
    /\ ActivityDuration # EmptyMap
    /\ kills = <<>>

\* C28: scan never changes the rule list: every activity name of the
\* classification is the name of a rule that exists, so controlActivities
\* creates no rule during a scan.
C28_ScanKeepsTheRules ==
    [][op' = "scan" =>
          /\ Activities' = Activities
          /\ DOMAIN classified' \subseteq RuleNames(Activities)]_vars

\* a scan that evaluated two activities and left the two rules as they were
C28_Witness ==
    /\ op = "scan"
    /\ Cardinality(Observed) = 2
    /\ Len(Activities) = 2
    /\ RuleNames(Activities) = before.rules
    /\ Observed = before.rules

\* the number of (rule, pattern, position in the process list) triples by
\* which a process is matched to an activity name
Matches(acts, processes, a, p) ==
    Cardinality({t \in UNION {{<<i, j, k>> : j \in 1..Len(acts[i].ProcessPatterns),
                                            k \in 1..Len(processes)} :
                              i \in 1..Len(acts)} :
                    /\ acts[t[1]].Name = a
                    /\ processes[t[3]] = p
                    /\ MatchString(acts[t[1]].ProcessPatterns[t[2]], p.Path)})

\* the number of times a process is in a list
Occurrences(list, p) == Cardinality({n \in 1..Len(list) : list[n] = p})

\* the processes of a list
Range(list) == {list[n] : n \in 1..Len(list)}

\* C30: classification is not exclusive and does not deduplicate: a process is
\* in the list of every activity one of whose patterns matches its path, as
\* many times as patterns of the activity match it, and an activity no
\* pattern of which matches a process is absent from the result.
C30_ClassificationKeepsEveryMatch ==
    \A processes \in ProcessLists :
        \E rp \in {getRunningProcessesPerActivity(Activities, processes)} :
            /\ DOMAIN rp \subseteq RuleNames(Activities)
            /\ \A a \in RuleNames(Activities) :
                   /\ a \in DOMAIN rp <=>
                          \E p \in Range(processes) : Matches(Activities, processes, a, p) > 0
                   /\ a \in DOMAIN rp =>
                          /\ Range(rp[a]) \subseteq Range(processes)
                          /\ \A p \in Range(processes) :
                                 Occurrences(rp[a], p) = Matches(Activities, processes, a, p)

\* a scan that put one process twice in the list of GTA and once in the list
\* of WEB, under rules that classify nothing as WEB when that process is not
\* running
C30_Witness ==
    /\ op = "scan"
    /\ {"GTA", "WEB"} \subseteq Observed
    /\ Occurrences(classified["GTA"], ProcessBoth) = 2
    /\ Occurrences(classified["WEB"], ProcessBoth) = 1
    /\ "WEB" \notin DOMAIN getRunningProcessesPerActivity(Activities, <<ProcessGTA>>)

\* C27: after any sequence of getOrCreateActivityRule calls (and of the other
\* policy operations) from an empty policy no two rules have the same name: a
\* call with a name that exists returns the rule of that name and leaves the
\* rule list as it is, a call with a new name appends one rule with that
\* name, no pattern and no schedule, and returns it.
C27_RuleNamesAreUnique ==
    /\ \A i, j \in 1..Len(Activities) : i # j => Activities[i].Name # Activities[j].Name
    /\ \A activity \in PolicyNames :
           \E g \in {getOrCreateActivityRule(Activities, activity)} :
               IF activity \in RuleNames(Activities)
               THEN /\ g.Activities = Activities
                    /\ g.idx \in 1..Len(Activities)
                    /\ Activities[g.idx].Name = activity
               ELSE /\ g.Activities =
                           Append(Activities,
                                  [Name |-> activity, ProcessPatterns |-> <<>>,
                                   AllowedSchedules |-> EmptyMap])
                    /\ g.idx = Len(Activities) + 1

\* a call for the name of the first of two rules, which has a pattern and
\* schedules, that left the two rules in place
C27_Witness ==
    /\ op = "getOrCreateActivityRule"
    /\ Len(Activities) = 2
    /\ before.rules = RuleNames(Activities)
    /\ Activities[1].ProcessPatterns # <<>>
    /\ Activities[1].AllowedSchedules # EmptyMap
    /\ getOrCreateActivityRule(Activities, Activities[1].Name).idx = 1

\* the operations on the policy
PolicyOperations ==
    {"getOrCreateActivityRule", "AddProgramPattern", "AddAllowedPeriod",
     "SetMaximumAllowedDurationPerDay"}

SumOfTheDate(a) == IF a \in DOMAIN ledger.sums THEN ledger.sums[a] ELSE 0

\* C21: starting from empty counters, with timestamps that never go back,
\* after every scan the duration reported for an activity equals the sum of
\* the sampling intervals of the scans that share LastControlTime's calendar
\* date and observed the activity; time of an earlier date with the same
\* weekday is never part of it.
C21_DurationIsTheSumOfTheDate ==
    op = "scan" =>
        \A a \in RuleNames(Activities) \cup DOMAIN ledger.sums :
            Accumulated(a) = SumOfTheDate(a)

\* the first scan of Saturday 2019-03-02 observes GTA while the bucket of
\* Saturday still held the time of an earlier Saturday
C21_Witness ==
    /\ op = "scan"
    /\ LastControlTime \div 1440 = 17957
    /\ before.dayChanged
    /\ "GTA" \in DOMAIN before.bucket
    /\ "GTA" \in DOMAIN classified
    /\ Accumulated("GTA") = SamplingInterval

\* C24: within one calendar date, once a scan decided KILL for an activity
\* with the reason of the duration threshold, every later scan of that date
\* observing the activity calls kill for it again.
C24_OverrunStaysKilledUntilTheNextDate ==
    [][\A a \in ledger.overrun :
           (/\ op' = "scan"
            /\ LastControlTime' \div 1440 = LastControlTime \div 1440
            /\ a \in DOMAIN classified')
           => \E k \in 1..Len(kills') : kills'[k].activity = a]_vars

\* a scan kills GTA for its duration and the scan that observed GTA before it,
\* on the same date, had already found the duration above the maximum
C24_Witness ==
    /\ op = "scan"
    /\ ~before.dayChanged
    /\ "GTA" \in ledger.overrun
    /\ HasDaySchedule("GTA")
    /\ KilledFor("GTA", ReasonDuration)
    /\ SumOfTheDate("GTA") - SamplingInterval > DaySchedule("GTA").MaxDuration

\* the number of scans of LastControlTime's calendar date that observed the
\* activity and called kill for none of its processes
AllowedScansOfTheDate(a) == IF a \in DOMAIN ledger.allowed THEN ledger.allowed[a] ELSE 0

\* C25: with a constant sampling interval I > 0, timestamps that never go
\* back and an unchanged rule whose schedule for the weekday has the maximum
\* M, at most M \div I scans of one calendar date observe the activity
\* without a kill call.
C25_AllowedScansWithinTheBudget ==
    op = "scan" =>
        \A a \in RuleNames(Activities) :
            HasDaySchedule(a) =>
                AllowedScansOfTheDate(a) <= DaySchedule(a).MaxDuration \div SamplingInterval

\* the budget of the date is used up: as many allowed scans as the maximum
\* has room for, then a scan that kills for the duration
C25_Witness ==
    /\ op = "scan"
    /\ HasDaySchedule("GTA")
    /\ AllowedScansOfTheDate("GTA") >= 1
    /\ AllowedScansOfTheDate("GTA") = DaySchedule("GTA").MaxDuration \div SamplingInterval
    /\ KilledFor("GTA", ReasonDuration)

\* the state file holds LastControlTime and the counters of the engine, as
\* dumpState writes them, and the counters are a map
SavedStateOf(c, file) ==
    /\ file.kind = "ok"
    /\ {"lastControlTime", "activityDuration"} \subseteq DOMAIN file.data
    /\ file.data.lastControlTime = Marshal(c).lastControlTime
    /\ file.data.activityDuration = Marshal(c).activityDuration
    /\ c.ActivityDuration # NilMap

\* C26: a restart grants no new budget. What dumpState writes after a scan
\* is restored by reloadStateIfExist into a new engine with LastControlTime
\* and all counters as they were saved; the scan that follows, when it
\* completes, adds to the saved durations when its timestamp has the calendar
\* date of the saved LastControlTime, and starts the bucket of its weekday
\* again when the date differs.
C26_RestartKeepsTheBudget ==
    [][/\ (pc = "dump" /\ op' = "dump" /\ stateFile.kind # "unreadable") =>
              \A now \in MainTimes :
                  \E c \in {reloadStateIfExist(
                                Controller(0, <<>>, now, EmptyMap, ZeroModTime), stateFile')} :
                      /\ c.LastControlTime = LastControlTime'
                      /\ c.ActivityDuration = ActivityDuration'
       /\ (pc = "restore" /\ op' = "restore" /\ stateFile.kind = "ok"
               /\ {"lastControlTime", "activityDuration"} \subseteq DOMAIN stateFile.data) =>
              /\ Marshal(Ctrl').lastControlTime = stateFile.data.lastControlTime
              /\ Marshal(Ctrl').activityDuration = stateFile.data.activityDuration
       /\ (pc = "scan" /\ op' = "scan" /\ restored = "ok" /\ SavedStateOf(Ctrl, stateFile)) =>
              \E saved \in {Unmarshal(stateFile).tmpCtrl} :
              \E day \in {(4 + (LastControlTime' \div 1440)) % 7} :
                  IF LastControlTime' \div 1440 = saved.LastControlTime \div 1440
                  THEN \A a \in DOMAIN Bucket(saved.ActivityDuration, day) \cup DOMAIN classified' :
                           GetActivityDuration(ActivityDuration', LastControlTime', a)
                               = GetActivityDuration(saved.ActivityDuration, LastControlTime', a)
                                     + IF a \in DOMAIN classified' THEN SamplingInterval ELSE 0
                  ELSE Bucket(ActivityDuration', day)
                           = [a \in DOMAIN classified' |-> SamplingInterval]]_vars

\* the engine restored one minute of GTA saved on Saturday at 20:00, and the
\* scan at 21:00 of that Saturday, the state file still as it was restored,
\* observed GTA and left its duration at the saved minute plus the interval
C26_Witness ==
    /\ pc = "dump"
    /\ op = "scan"
    /\ restored = "ok"
    /\ stateFile.kind = "ok"
    /\ "activityDuration" \in DOMAIN stateFile.data
    /\ LastControlTime = 17929 * 1440 + 21 * 60
    /\ Unmarshal(stateFile).tmpCtrl.LastControlTime = 17929 * 1440 + 20 * 60
    /\ "GTA" \in DOMAIN classified
    /\ Accumulated("GTA")
           = GetActivityDuration(Unmarshal(stateFile).tmpCtrl.ActivityDuration,
                                 LastControlTime, "GTA") + SamplingInterval
    /\ Accumulated("GTA") = 2

\* C31: AddAllowedPeriod stores a window whose end is not after its begin
\* as it was given, and no time of day is inside such a window: an observed
\* activity whose schedule for the weekday holds only such windows, and whose
\* duration is not above the maximum, is killed with the reason of the time
\* range whatever the time of day.
C31_WindowThatEndsBeforeItBeginsNeverMatches ==
    /\ \A w \in WindowPeriods :
           AddAllowedPeriod(NewActivityRule("GTA"), <<6>>, w.Begin, w.End)
               .AllowedSchedules[6].AllowedPeriods = <<w>>
    /\ op = "scan" =>
           \A a \in Observed :
               (/\ HasDaySchedule(a)
                /\ \A k \in 1..Len(DaySchedule(a).AllowedPeriods) :
                       DaySchedule(a).AllowedPeriods[k].End
                           <= DaySchedule(a).AllowedPeriods[k].Begin
                /\ Accumulated(a) <= DaySchedule(a).MaxDuration)
               => KilledFor(a, ReasonTimeRange)

\* GTA observed at 21:00 under the only window 21:00-18:00, within its
\* maximum, and killed for the time range
C31_Witness ==
    /\ op = "scan"
    /\ "GTA" \in Observed
    /\ HasDaySchedule("GTA")
    /\ DaySchedule("GTA").AllowedPeriods = <<[Begin |-> 2100, End |-> 1800]>>
    /\ CurrentDayTime = 2100
    /\ Accumulated("GTA") <= DaySchedule("GTA").MaxDuration
    /\ KilledFor("GTA", ReasonTimeRange)

\* C32: the windows of a schedule are a union: for an observed activity that
\* passed the checks of the day and of the duration, the check of the time
\* range passes exactly when the time of day is inside at least one window of
\* the set of windows of the schedule, whatever the order in which they were
\* added and however many windows do not contain it.
C32_WindowsAreAUnion ==
    op = "scan" =>
        \A a \in Observed :
            (HasDaySchedule(a) /\ Accumulated(a) <= DaySchedule(a).MaxDuration) =>
                \E windows \in {{DaySchedule(a).AllowedPeriods[k] :
                                     k \in 1..Len(DaySchedule(a).AllowedPeriods)}} :
                    /\ ~Killed(a) <=>
                           \E w \in windows : w.Begin <= CurrentDayTime /\ CurrentDayTime < w.End
                    /\ Killed(a) => ReasonsOf(a) = {ReasonTimeRange}

\* GTA allowed at 20:00 by the window 20:00-21:00 added after a window that
\* does not contain 20:00
C32_Witness ==
    /\ op = "scan"
    /\ "GTA" \in Observed
    /\ HasDaySchedule("GTA")
    /\ Len(DaySchedule("GTA").AllowedPeriods) = 2
    /\ DaySchedule("GTA").AllowedPeriods[1] = [Begin |-> 1800, End |-> 1900]
    /\ DaySchedule("GTA").AllowedPeriods[2] = [Begin |-> 2000, End |-> 2100]
    /\ CurrentDayTime = 2000
    /\ ~Killed("GTA")

\* C33: a schedule created by AddAllowedPeriod alone has the maximum zero,
\* and under a schedule whose maximum is zero every scan that observes the
\* activity kills it with the reason of the duration, also when the time of
\* day is inside a window.
C33_ScheduleWithoutMaximumAllowsNothing ==
    /\ \A w \in WindowPeriods :
           AddAllowedPeriod(NewActivityRule("GTA"), <<6>>, w.Begin, w.End)
               .AllowedSchedules[6].MaxDuration = 0
    /\ op = "scan" =>
           \A a \in Observed :
               (HasDaySchedule(a) /\ DaySchedule(a).MaxDuration = 0) =>
                   ReasonsOf(a) = {ReasonDuration}

\* a Saturday at 20:00 inside the window 20:00-21:00, the maximum set for
\* Sunday alone: GTA is killed for its duration
C33_Witness ==
    /\ op = "scan"
    /\ CurrentDay = 6
    /\ CurrentDayTime = 2000
    /\ "GTA" \in Observed
    /\ HasDaySchedule("GTA")
    /\ DaySchedule("GTA").AllowedPeriods = <<[Begin |-> 2000, End |-> 2100]>>
    /\ DaySchedule("GTA").MaxDuration = 0
    /\ RuleOf("GTA").AllowedSchedules[0].MaxDuration = 2
    /\ KilledFor("GTA", ReasonDuration)

\* the step is a start of the process; it is a call of reloadConfIfNeeded,
\* from the constructor or from the loop of main
StartStep == op' \in {"start", "panicStart"} /\ configFile' = configFile
ConfigStep == StartStep \/ (pc = "reload" /\ op' \in {"reload", "panicReload"})

\* after a panic nothing of the process runs, no scan in particular, until
\* the process is started again
PanicEndsTheProcess ==
    (pc = "panic" /\ ~StartStep) =>
        /\ pc' = "panic"
        /\ UNCHANGED <<op, SamplingInterval, Activities, LastControlTime, ActivityDuration,
                       classified, kills, confLastModTime, stateFile>>

\* C34 as stated: whenever reloadConfIfNeeded runs while the configuration
\* file is absent or cannot be opened or read, the process panics, and no
\* scan runs after it.
C34_Original ==
    [][/\ (ConfigStep /\ configFile.kind \in {"missing", "unreadable"}) => pc' = "panic"
       /\ PanicEndsTheProcess]_vars

\* C34: reloadConfIfNeeded panics when the configuration file is absent, and
\* when its modification time is after the last one seen (always so at
\* startup) and it cannot be opened or read; no scan of the process runs after
\* the panic. A file that cannot be opened and whose modification time is not
\* after the last one seen is not opened: the reload returns and the loop goes
\* on with the rules and the interval loaded before.
C34_AbsentOrNewerUnreadablePanics ==
    [][/\ (ConfigStep /\ configFile.kind = "missing") => pc' = "panic"
       /\ (ConfigStep /\ configFile.kind = "unreadable"
               /\ (StartStep \/ configFile.modTime > confLastModTime))
              => pc' = "panic"
       /\ (pc = "reload" /\ op' \in {"reload", "panicReload"}
               /\ configFile.kind = "unreadable"
               /\ ~(configFile.modTime > confLastModTime))
              => /\ pc' = "sleep"
                 /\ UNCHANGED <<SamplingInterval, Activities, confLastModTime>>
       /\ PanicEndsTheProcess]_vars

\* the loop had scanned and counted under its rules when the reload found a
\* newer configuration file that it could not open, and panicked
C34_Witness ==
    /\ pc = "panic"
    /\ op = "panicReload"
    /\ configFile.kind = "unreadable"
    /\ confLastModTime = configFile.modTime
    /\ Activities # <<>>
    /\ classified # EmptyMap
    /\ ActivityDuration # EmptyMap

\* C35: a configuration file that does not parse is not rejected: the call
\* of reloadConfIfNeeded that reads it replaces the rules by an empty list
\* and the sampling interval by zero and goes on; the rules stay empty until
\* a reload reads a file that parses, and until then every scan completes
\* with an empty classification and without a kill call.
C35_UnparsableConfigurationEmptiesThePolicy ==
    [][/\ (ConfigStep /\ configFile.kind = "malformed"
               /\ (StartStep \/ configFile.modTime > confLastModTime))
              => /\ Activities' = <<>>
                 /\ SamplingInterval' = 0
                 /\ confLastModTime' = configFile.modTime
                 /\ pc' # "panic"
       /\ (Activities = <<>> /\ Activities' # <<>>)
              => ConfigStep /\ configFile.kind = "ok"
       /\ (ScanStep /\ Activities = <<>>)
              => /\ op' = "scan"
                 /\ classified' = EmptyMap
                 /\ kills' = <<>>
                 /\ \A day \in DOMAIN ActivityDuration' :
                        day \in DOMAIN ActivityDuration
                            /\ ActivityDuration'[day] = ActivityDuration[day]]_vars

\* a scan under the empty rules and the zero interval that a reload took
\* from a file that does not parse, the durations on record before it still
\* in place
C35_Witness ==
    /\ pc = "dump"
    /\ op = "scan"
    /\ configFile.kind = "malformed"
    /\ confLastModTime = configFile.modTime
    /\ Activities = <<>>
    /\ SamplingInterval = 0
    /\ classified = EmptyMap
    /\ kills = <<>>
    /\ ActivityDuration # NilMap
    /\ \E day \in DOMAIN ActivityDuration : \E a \in DOMAIN ActivityDuration[day] :
           ActivityDuration[day][a] > 0

\* the positions of main that follow one another
LoopOrder ==
    {<<"restore", "reload">>, <<"reload", "sleep">>, <<"sleep", "scan">>,
     <<"scan", "dump">>, <<"dump", "reload">>, <<"reload", "panic">>, <<"scan", "panic">>}

====
